---- MODULE Spec2Model ----
(***************************************************************************)
(* Product-info extraction pipeline of the wishlist server                 *)
(* (src/server/server.js, extractProductInfo and its helpers).             *)
(*                                                                         *)
(* Strings are TLA+ strings handled character by character (Len, SubSeq,   *)
(* \o), so that hostname matching is the substring test the code performs. *)
(***************************************************************************)
EXTENDS Integers, Sequences, FiniteSets, TLC

(***************************************************************************)
(* Bounds of the model                                                     *)
(***************************************************************************)
\* granularity of the clock, in seconds
TickSec == 10
\* longest time, in seconds, an operation without an explicit timeout
\* (launch, newPage, page set-up, extractors, close) stays in flight
MaxOpSec == 20

(***************************************************************************)
(* Program constants                                                       *)
(***************************************************************************)
\* setTimeout(..., 20000)
ExtractionTimeoutSec == 20
\* page.goto(url, { timeout: 15000 })
NavTimeoutSec == 15
\* page.waitForSelector(..., { timeout: 15000 })
ReadyTimeoutSec == 15

\* the extractProductInfo calls the model follows
Calls == {1, 2}

(***************************************************************************)
(* JavaScript string primitives                                            *)
(***************************************************************************)
\* the value null / undefined of a ProductInfo field
Null == "<null>"

\* !v for a field value: null, undefined and "" are falsy
Falsy(v) == v = Null \/ v = ""

\* String.prototype.indexOf: first position (1-based) of sub in s, 0 if none
IndexOf(s, sub) ==
  LET hits == {i \in 1..(Len(s) - Len(sub) + 1) : SubSeq(s, i, i + Len(sub) - 1) = sub}
  IN IF hits = {} THEN 0 ELSE CHOOSE i \in hits : \A j \in hits : i <= j

\* String.prototype.includes
Includes(s, sub) == sub = "" \/ IndexOf(s, sub) > 0

UpperChars == "ABCDEFGHIJKLMNOPQRSTUVWXYZ"
LowerChars == "abcdefghijklmnopqrstuvwxyz"

LowerOf(ch) ==
  LET k == IndexOf(UpperChars, ch)
  IN IF k = 0 THEN ch ELSE SubSeq(LowerChars, k, k)

RECURSIVE ToLowerCase(_)
\* String.prototype.toLowerCase
ToLowerCase(s) ==
  IF s = "" THEN ""
  ELSE LowerOf(SubSeq(s, 1, 1)) \o ToLowerCase(SubSeq(s, 2, Len(s)))

\* s.replace(pat, ""): removes the first occurrence of pat only
ReplaceFirst(s, pat) ==
  LET k == IndexOf(s, pat)
  IN IF k = 0 THEN s
     ELSE SubSeq(s, 1, k - 1) \o SubSeq(s, k + Len(pat), Len(s))

\* s.split(sep)[0]
SplitFirst(s, sep) ==
  LET k == IndexOf(s, sep)
  IN IF k = 0 THEN s ELSE SubSeq(s, 1, k - 1)

IsLetters(s) ==
  \A i \in 1..Len(s) : IndexOf(UpperChars \o LowerChars, SubSeq(s, i, i)) > 0

(***************************************************************************)
(* new URL(url): ok = FALSE stands for the TypeError 'Invalid URL'.        *)
(* An absolute URL needs a scheme; http and https need a non-empty host.   *)
(* The hostname ends at the first '/', and is returned lower-cased.        *)
(***************************************************************************)
ParseURL(s) ==
  LET k      == IndexOf(s, ":")
      scheme == ToLowerCase(SubSeq(s, 1, k - 1))
      rest   == SubSeq(s, k + 1, Len(s))
      auth   == IF SubSeq(rest, 1, 2) = "//"
                THEN SplitFirst(SubSeq(rest, 3, Len(rest)), "/")
                ELSE ""
  IN IF k <= 1 \/ ~IsLetters(SubSeq(s, 1, k - 1))
     THEN [ok |-> FALSE, hostname |-> ""]
     ELSE IF scheme \in {"http", "https"} /\ auth = ""
     THEN [ok |-> FALSE, hostname |-> ""]
     ELSE [ok |-> TRUE, hostname |-> ToLowerCase(auth)]

(***************************************************************************)
(* Supported-domain gate and extractor dispatch                            *)
(***************************************************************************)
SUPPORTED_DOMAINS ==
  << "rozetka.com.ua", "prom.ua", "olx.ua", "amazon.com", "ebay.com",
     "bestbuy.com", "target.com", "aliexpress.com", "walmart.com",
     "etsy.com", "newegg.com", "sephora.com", "zalando.de", "mediamarkt.de",
     "saturn.de", "apple.com", "samsung.com", "mediaexpert.pl", "morele.net",
     "x-kom.pl" >>

\* supportedDomain.replace('www.', '').split('.')[0]
DomainKey(supportedDomain) == SplitFirst(ReplaceFirst(supportedDomain, "www."), ".")

\* variant: every domain passes the gate
IsSupported_Any(domain) == TRUE

\* SUPPORTED_DOMAINS.some(d => domain.includes(key of d))
IsSupported(domain) ==
  \E i \in 1..Len(SUPPORTED_DOMAINS) : Includes(domain, DomainKey(SUPPORTED_DOMAINS[i]))

\* the if / else-if chain choosing the primary extractor
DispatchOrder ==
  << "rozetka", "prom", "olx", "amazon", "ebay", "bestbuy", "target",
     "aliexpress", "walmart", "etsy", "newegg" >>

\* variant: the chain has no final else, its last branch takes the rest
Dispatch_NoElse(domain) ==
  LET hits == {i \in 1..Len(DispatchOrder) : Includes(domain, DispatchOrder[i])}
  IN IF hits = {} THEN DispatchOrder[Len(DispatchOrder)]
     ELSE DispatchOrder[CHOOSE i \in hits : \A j \in hits : i <= j]

Dispatch(domain) ==
  LET hits == {i \in 1..Len(DispatchOrder) : Includes(domain, DispatchOrder[i])}
  IN IF hits = {} THEN "generic"
     ELSE DispatchOrder[CHOOSE i \in hits : \A j \in hits : i <= j]

(***************************************************************************)
(* ProductInfo and the fallback tests and merge of extractProductInfo      *)
(***************************************************************************)
Info(t, p, i) == [title |-> t, price |-> p, image |-> i]

\* a ProductInfo no extractor has filled yet
NoInfo == Info(Null, Null, Null)

Fields == {"title", "price", "image"}

\* !productInfo.title || productInfo.title.includes(domain)
\* variant: only an empty title sends the call on to the next extractor
NeedsFallback_EmptyOnly(info, domain) == Falsy(info.title)

NeedsFallback(info, domain) == Falsy(info.title) \/ Includes(info.title, domain)

\* fallbackInfo.title && !fallbackInfo.title.includes(domain)
Acceptable(info, domain) == ~Falsy(info.title) /\ ~Includes(info.title, domain)

\* {...a, ...b}: every key of b replaces the key of a
Spread(a, b) ==
  [k \in (DOMAIN a) \cup (DOMAIN b) |-> IF k \in DOMAIN b THEN b[k] ELSE a[k]]

\* variant: an accepted fallback only fills the fields that are empty
MergeFallback_FillGaps(productInfo, fallbackInfo, domain) ==
  IF Acceptable(fallbackInfo, domain)
  THEN [k \in DOMAIN productInfo |->
          IF Falsy(productInfo[k]) THEN fallbackInfo[k] ELSE productInfo[k]]
  ELSE productInfo

\* productInfo after a fallback stage returned fallbackInfo
MergeFallback(productInfo, fallbackInfo, domain) ==
  IF Acceptable(fallbackInfo, domain) THEN Spread(productInfo, fallbackInfo)
  ELSE productInfo

(***************************************************************************)
(* The pages the calls are made against: for each URL, what the            *)
(* site-specific selectors, the meta tags and the content heuristics of    *)
(* the (static) page yield.                                                *)
(***************************************************************************)
URLS ==
  { "not a url",
    "www.prom.ua/p2",
    "https://shop.unknownsite.io/item",
    "https://M.Rozetka.com.ua/p1",
    "https://prom.ua/p2",
    "https://www.olx.ua/p3",
    "https://www.sephora.com/p4",
    "https://etsy.com/p5",
    "https://amazon.com/p6",
    "https://ebay.com/p7",
    "https://apple.com/p8",
    "https://amazon.com/timed out" }

Web(u) ==
  CASE u = "https://M.Rozetka.com.ua/p1" ->
         [site    |-> Info("Phone X", "9 999 UAH", "https://m.rozetka.com.ua/i.jpg"),
          meta    |-> Info("Phone X - Rozetka", "9999", "https://cdn.example.net/og.jpg"),
          content |-> Info("Phone X", "9 999", Null)]
    [] u = "https://prom.ua/p2" ->
         [site    |-> Info(Null, "120 UAH", "https://prom.ua/a.jpg"),
          meta    |-> Info("Lamp", Null, Null),
          content |-> Info("Lamp 40W", "120", Null)]
    [] u = "https://www.olx.ua/p3" ->
         [site    |-> Info("www.olx.ua - login", Null, "https://www.olx.ua/s.jpg"),
          meta    |-> Info("www.olx.ua", "5 UAH", Null),
          content |-> Info("Bike 26", "10 UAH", Null)]
    [] u = "https://www.sephora.com/p4" ->
         [site    |-> NoInfo,
          meta    |-> Info("Lipstick", "20", "https://cdn.example.net/l.jpg"),
          content |-> Info("Lipstick red", Null, Null)]
    [] u = "https://etsy.com/p5" ->
         [site    |-> Info("", "7 USD", Null),
          meta    |-> NoInfo,
          content |-> Info(Null, Null, Null)]
    [] u = "https://amazon.com/p6" ->
         [site    |-> NoInfo,
          meta    |-> Info("Book", "12", "https://amazon.com/b.jpg"),
          content |-> NoInfo]
    [] u = "https://ebay.com/p7" ->
         [site    |-> NoInfo,
          meta    |-> Info(Null, "3", Null),
          content |-> Info("Mug", "4", "https://ebay.com/m.jpg")]
    [] u = "https://apple.com/p8" ->
         [site    |-> NoInfo,
          meta    |-> Info(Null, "99", Null),
          content |-> Info("iPhone", Null, Null)]
    [] OTHER ->
         [site |-> NoInfo, meta |-> NoInfo, content |-> NoInfo]

\* extractRozetkaInfo awaits page.waitForTimeout outside any try/catch; every
\* await of the other extractors is inside one
CanThrow(extractor) == extractor = "rozetka"

(***************************************************************************)
(* Errors                                                                  *)
(***************************************************************************)
TimeoutMsg == "Product extraction timed out after 20 seconds"
PuppeteerMissingMsg == "Puppeteer is not available. Browser automation is not possible."
InvalidUrlMsg == "Invalid URL"
UnsupportedMsg(domain) == "Domain " \o domain \o " is not supported"
NewPageFailedMsg == "Failed to create browser page. This might be due to Puppeteer/Chrome compatibility issues."
\* errors raised by the browser library
LaunchFailedMsg == "Failed to launch the browser process!"
SetupFailedMsg == "Protocol error: Target closed"
NavigationFailedMsg == "Navigation timeout of 15000 ms exceeded"
\* page.goto rejects a navigation the network refused with the error text
\* and the url it was given
NetErrorMsg(url) == "net::ERR_CONNECTION_REFUSED at " \o url
ReadyFailedMsg == "Waiting for selector failed: 15000ms exceeded"
ExtractorFailedMsg == "page.waitForTimeout is not a function"
CloseFailedMsg == "Protocol error: Connection closed"

(***************************************************************************)
(* Promises                                                                *)
(***************************************************************************)
Pending == [state |-> "pending", info |-> NoInfo, error |-> ""]
Fulfilled(i) == [state |-> "fulfilled", info |-> i, error |-> ""]
Rejected(e) == [state |-> "rejected", info |-> NoInfo, error |-> e]

\* variant: the promise that settles last decides
Race_LastWins(current, settled) == settled

\* await Promise.race([extractionPromise, timeoutPromise]) and the rethrowing
\* catch: the first promise to settle decides, later ones are ignored
Race(current, settled) == IF current.state = "pending" THEN settled ELSE current

(***************************************************************************)
(* Image addresses                                                         *)
(***************************************************************************)
\* s.startsWith(prefix)
StartsWith(s, prefix) == SubSeq(s, 1, Len(prefix)) = prefix

\* new URL(pageUrl).origin of a page reached over http or https
Origin(url) ==
  LET k == IndexOf(url, ":")
  IN ToLowerCase(SubSeq(url, 1, k - 1)) \o "://" \o ParseURL(url).hostname

\* The block 'make sure the image URL is absolute' of extractRozetkaInfo,
\* extractGenericInfo and extractContentBasedInfo: an address new URL()
\* rejects is completed when it starts with '//' or '/'
ResolveImage(raw, page) ==
  IF ParseURL(raw).ok THEN raw
  ELSE IF StartsWith(raw, "//") THEN "https:" \o raw
  ELSE IF StartsWith(raw, "/") THEN Origin(page) \o raw
  ELSE raw

(***************************************************************************)
(* The price normalizer                                                    *)
(*                                                                         *)
(* Price texts are strings of ASCII characters; a character outside ASCII  *)
(* (a currency sign, a Cyrillic letter) is written as an ASCII letter or   *)
(* sign of the same class: the normalizer only tells digits, dots, commas  *)
(* and whitespace from everything else.  A number is kept as the decimal   *)
(* mant / 10^exp with no trailing zero in its fraction.                    *)
(***************************************************************************)
Digits == {"0", "1", "2", "3", "4", "5", "6", "7", "8", "9"}

Num(m, e) == [kind |-> "num", mant |-> m, exp |-> e]
NaN == [kind |-> "nan", mant |-> 0, exp |-> 0]
PriceNull == [kind |-> "null", mant |-> 0, exp |-> 0]
PriceUnset == [kind |-> "unset", mant |-> 0, exp |-> 0]

RECURSIVE SelectChars(_, _)
\* s.replace(/[^...]/g, ''): the characters of s that are in keep
SelectChars(s, keep) ==
  IF s = "" THEN ""
  ELSE (IF SubSeq(s, 1, 1) \in keep THEN SubSeq(s, 1, 1) ELSE "")
         \o SelectChars(SubSeq(s, 2, Len(s)), keep)

RECURSIVE ReplaceAll(_, _, _)
\* s.replace(/ch/g, to)
ReplaceAll(s, ch, to) ==
  IF s = "" THEN ""
  ELSE (IF SubSeq(s, 1, 1) = ch THEN to ELSE SubSeq(s, 1, 1))
         \o ReplaceAll(SubSeq(s, 2, Len(s)), ch, to)

\* (s.match(/ch/g) || []).length
CountOf(s, ch) == Cardinality({i \in 1..Len(s) : SubSeq(s, i, i) = ch})

\* s.lastIndexOf(ch), counted from 0; -1 when ch does not occur
LastIndexOf(s, ch) ==
  LET at == {i \in 1..Len(s) : SubSeq(s, i, i) = ch}
  IN IF at = {} THEN -1 ELSE (CHOOSE i \in at : \A j \in at : j <= i) - 1

\* s.trim()
Trim(s) ==
  LET ink == {i \in 1..Len(s) : SubSeq(s, i, i) # " "}
  IN IF ink = {} THEN ""
     ELSE SubSeq(s, CHOOSE i \in ink : \A j \in ink : i <= j,
                    CHOOSE i \in ink : \A j \in ink : j <= i)

\* the length of the longest prefix of s made of characters in class
RunLength(s, class) ==
  LET stops == {i \in 1..Len(s) : SubSeq(s, i, i) \notin class}
  IN IF stops = {} THEN Len(s)
     ELSE (CHOOSE i \in stops : \A j \in stops : i <= j) - 1

\* s.match(/[\d.]+/): the first run of digits and dots, Null when none
MatchNumeric(s) ==
  LET class  == Digits \cup {"."}
      starts == {i \in 1..Len(s) : SubSeq(s, i, i) \in class}
      from   == CHOOSE i \in starts : \A j \in starts : i <= j
      rest   == SubSeq(s, from, Len(s))
  IN IF starts = {} THEN Null ELSE SubSeq(rest, 1, RunLength(rest, class))

DigitValue(ch) ==
  CASE ch = "0" -> 0 [] ch = "1" -> 1 [] ch = "2" -> 2 [] ch = "3" -> 3
    [] ch = "4" -> 4 [] ch = "5" -> 5 [] ch = "6" -> 6 [] ch = "7" -> 7
    [] ch = "8" -> 8 [] ch = "9" -> 9

RECURSIVE DigitsToNat(_)
DigitsToNat(s) ==
  IF s = "" THEN 0
  ELSE 10 * DigitsToNat(SubSeq(s, 1, Len(s) - 1))
         + DigitValue(SubSeq(s, Len(s), Len(s)))

\* s without the zeros at its end
DropTrailingZeros(s) ==
  LET nz == {i \in 1..Len(s) : SubSeq(s, i, i) # "0"}
  IN IF nz = {} THEN "" ELSE SubSeq(s, 1, CHOOSE i \in nz : \A j \in nz : j <= i)

\* parseFloat(s) for s made of digits and dots: the longest prefix that is a
\* decimal literal, NaN when that prefix holds no digit
ParseFloat(s) ==
  LET intLen  == RunLength(s, Digits)
      intPart == SubSeq(s, 1, intLen)
      hasDot  == intLen < Len(s) /\ SubSeq(s, intLen + 1, intLen + 1) = "."
      after   == IF hasDot THEN SubSeq(s, intLen + 2, Len(s)) ELSE ""
      frac    == SubSeq(after, 1, RunLength(after, Digits))
      kept    == DropTrailingZeros(frac)
  IN IF intPart = "" /\ frac = "" THEN NaN
     ELSE Num(DigitsToNat(intPart \o kept), Len(kept))

\* The separator rules both normalizers share, applied to the text that is
\* left after the non-numeric characters are removed
Separators(clean) ==
  LET commaCount == CountOf(clean, ",")
      dotCount   == CountOf(clean, ".")
      dotIndex   == LastIndexOf(clean, ".")
      commaIndex == LastIndexOf(clean, ",")
      decided ==
        IF commaCount > 1 /\ dotCount <= 1 THEN ReplaceAll(clean, ",", "")
        ELSE IF commaCount = 1 /\ dotCount = 0 THEN ReplaceAll(clean, ",", ".")
        ELSE IF commaCount > 1 /\ dotCount = 1
          THEN IF commaIndex > dotIndex
               THEN ReplaceAll(ReplaceAll(clean, ".", ""), ",", ".")
               ELSE ReplaceAll(clean, ",", "")
        ELSE clean
  IN ReplaceAll(decided, " ", "")

NumericChars == Digits \cup {".", ",", " "}

\* POST /api/goods: priceValue for productInfo.price
ServerPriceValue(price) ==
  IF Falsy(price) THEN PriceNull
  ELSE LET priceMatch == MatchNumeric(Separators(SelectChars(price, NumericChars)))
           parsed     == ParseFloat(priceMatch)
       IN IF priceMatch = Null THEN PriceNull
          ELSE IF parsed = NaN \/ parsed.mant = 0 THEN PriceNull
          ELSE parsed

\* the client's extractPriceValue(priceString)
ExtractPriceValue(price) ==
  IF Falsy(price) THEN PriceNull
  ELSE LET priceMatch ==
             MatchNumeric(Separators(Trim(SelectChars(price, NumericChars))))
           parsedValue == ParseFloat(priceMatch)
       IN IF priceMatch = Null THEN PriceNull
          ELSE IF parsedValue # NaN THEN parsedValue
          ELSE PriceNull

(***************************************************************************)
(* State                                                                   *)
(*                                                                         *)
(* puppeteer : whether require('puppeteer') succeeded at start-up          *)
(* browsers  : every browser puppeteer.launch was asked for, in order      *)
(* pages     : every page browser.newPage was asked for, in order          *)
(* calls     : per extractProductInfo call, its local variables, promises  *)
(*             and position                                                *)
(***************************************************************************)
VARIABLES puppeteer, browsers, pages, calls

(***************************************************************************)
(* priceString : the price text handed to the price normalizer             *)
(* priceValue  : what POST /api/goods computes from it                     *)
(* clientValue : what the client's extractPriceValue returns for it        *)
(***************************************************************************)
VARIABLES priceString, priceValue, clientValue

(***************************************************************************)
(* guests   : the rows of the Guests table, in order of their ids          *)
(* goods    : the reservation fields of the rows of the Goods table        *)
(* requests : per reservation request, the locals and position of its      *)
(*            handler                                                      *)
(* now      : the clock new Date() reads, counted in reservations          *)
(***************************************************************************)
VARIABLES guests, goods, requests, now

(***************************************************************************)
(* http : per call, the POST /api/extract-product-info request that made   *)
(*        it, if one did, and the response sent                            *)
(***************************************************************************)
VARIABLES http

(***************************************************************************)
(* imageUrl : an image address as an extractor reads it off the page       *)
(* pageUrl  : page.url() of that page                                      *)
(* image    : the image address the extractor returns for it               *)
(***************************************************************************)
VARIABLES imageUrl, pageUrl, image

(***************************************************************************)
(* candidates : what each selector of one field's list yields on the page  *)
(* tried      : how many of them the loop has consulted                    *)
(* field      : the extractor's local variable for the field               *)
(* cascadePc  : "idle", "loop" while the for loop runs, "returned"         *)
(***************************************************************************)
VARIABLES candidates, tried, field, cascadePc

(***************************************************************************)
(* retailer      : the site-specific extractor that is run                 *)
(* selectorPrice : the price its selector list left                        *)
(* bodyText      : the visible text of the page (body.innerText)           *)
(* altPrice      : what the search over price-like elements would find     *)
(* retailerPrice : the price the extractor returns                         *)
(***************************************************************************)
VARIABLES retailer, selectorPrice, bodyText, altPrice, retailerPrice

(***************************************************************************)
(* siteDomain : the supported domain a product URL belongs to              *)
(* siteUrl    : the product URL, on a subdomain or case variant of it      *)
(* gate       : what the validation and the supported-domain test decide   *)
(* routed     : the extractor the dispatch chain picks                     *)
(***************************************************************************)
VARIABLES siteDomain, siteUrl, gate, routed

(***************************************************************************)
(* post    : per call slot, the POST /api/goods request being served       *)
(* created : the rows of the Goods table that the endpoint has created     *)
(***************************************************************************)
VARIABLES post, created

(***************************************************************************)
(* currentWishlist : the client's local list of items                      *)
(* adds            : per run of addItemToWishlist, where it stands         *)
(* nextGoodId      : the id the server gives the next Goods row            *)
(***************************************************************************)
VARIABLES currentWishlist, adds, nextGoodId

extractionVars == <<puppeteer, browsers, pages, calls>>
priceVars == <<priceString, priceValue, clientValue>>

dbVars == <<guests, goods, requests, now>>
imageVars == <<imageUrl, pageUrl, image>>
clientVars == <<currentWishlist, adds, nextGoodId>>
postVars == <<post, created>>
classifyVars == <<siteDomain, siteUrl, gate, routed>>
sweepVars == <<retailer, selectorPrice, bodyText, altPrice, retailerPrice>>
cascadeVars == <<candidates, tried, field, cascadePc>>

\* the variables extractProductInfo does not touch
otherVars == <<priceVars, dbVars, imageVars, cascadeVars, sweepVars, classifyVars, postVars, clientVars, http>>
\* the variables the extraction endpoint does not touch
sideVars == <<priceVars, dbVars, imageVars, cascadeVars, sweepVars, classifyVars, postVars, clientVars>>
exceptPrice == <<extractionVars, dbVars, imageVars, cascadeVars, sweepVars, classifyVars, postVars, clientVars, http>>
exceptDb == <<extractionVars, priceVars, imageVars, cascadeVars, sweepVars, classifyVars, postVars, clientVars, http>>
exceptImage == <<extractionVars, priceVars, dbVars, cascadeVars, sweepVars, classifyVars, postVars, clientVars, http>>

exceptCascade == <<extractionVars, priceVars, dbVars, imageVars, sweepVars, classifyVars, postVars, clientVars, http>>

exceptSweep == <<extractionVars, priceVars, dbVars, imageVars, cascadeVars, classifyVars, postVars, clientVars, http>>

exceptClassify == <<extractionVars, priceVars, dbVars, imageVars, cascadeVars, sweepVars, postVars, clientVars, http>>

exceptPostCall == <<priceVars, dbVars, imageVars, cascadeVars, sweepVars, classifyVars, clientVars, http>>

exceptClient == <<extractionVars, priceVars, dbVars, imageVars, cascadeVars, sweepVars, classifyVars, postVars, http>>

vars == <<extractionVars, priceVars, dbVars, imageVars, cascadeVars, sweepVars, classifyVars, postVars, clientVars, http>>

\* positions at which a call waits for a browser operation to settle
InFlightPcs ==
  { "launching", "newPage", "setup", "goto1", "goto2", "waitForSelector",
    "primary", "generic", "content", "closingPage", "closingBrowser" }

IdleCall ==
  [ pc                |-> "idle",
    url               |-> "",
    domain            |-> "",
    extractor         |-> "",
    launching         |-> 0,        \* browser the pending launch will yield
    creating          |-> 0,        \* page the pending newPage will yield
    browser           |-> 0,        \* let browser (0: undefined)
    page              |-> 0,        \* let page (0: undefined)
    productInfo       |-> NoInfo,
    genericInfo       |-> NoInfo,
    contentBasedInfo  |-> NoInfo,
    completion        |-> Pending,  \* how the try block was left
    extractionPromise |-> Pending,
    timeoutPromise    |-> "none",   \* none, pending, rejected
    result            |-> Pending,  \* settlement of extractProductInfo itself
    elapsed           |-> 0,        \* seconds since the timer was armed
    opElapsed         |-> 0,        \* seconds the operation in flight has run
    \* history, not read by the program
    primaryInfo       |-> NoInfo,   \* what the primary extractor returned
    ran               |-> {},       \* extractors that ran to completion
    ops               |-> <<>>,     \* the browser operations called and settled
    closeThrew        |-> {} ]      \* closes that threw: "page", "browser"

\* a response body: the keys it has and their values
Body(keys, success, error, data) ==
  [keys |-> keys, success |-> success, error |-> error, data |-> data]

IdleHttp ==
  [ pc     |-> "idle",       \* idle, awaiting, responded
    url    |-> Null,         \* req.body.url
    status |-> 0,
    body   |-> Body({}, FALSE, "", NoInfo) ]

ExtractionIdle ==
  /\ browsers = <<>>
  /\ pages = <<>>
  /\ calls = [c \in Calls |-> IdleCall]
  /\ http = [c \in Calls |-> IdleHttp]

ImageIdle ==
  /\ imageUrl = ""
  /\ pageUrl = ""
  /\ image = Null

CascadeIdle ==
  /\ candidates = <<>>
  /\ tried = 0
  /\ field = Null
  /\ cascadePc = "idle"

\* retailerPrice before the extractor has returned
Unreturned == "<unreturned>"

SweepIdle ==
  /\ retailer = ""
  /\ selectorPrice = Null
  /\ bodyText = ""
  /\ altPrice = Null
  /\ retailerPrice = Unreturned

ClassifyIdle ==
  /\ siteDomain = ""
  /\ siteUrl = ""
  /\ gate = ""
  /\ routed = ""

NoPostBody == [error |-> "", message |-> "", id |-> 0]

NoRow == [name |-> "", price |-> PriceNull, imageUrl |-> Null, url |-> "", listId |-> 0]

IdlePost ==
  [ pc          |-> "idle",
    kind        |-> "",       \* url: the product is extracted; manual: it is not
    url         |-> Null,     \* req.body.url
    name        |-> Null,     \* req.body.name
    price       |-> Null,     \* req.body.price
    productInfo |-> NoInfo,
    row         |-> NoRow,    \* the values handed to db.Goods.create
    status      |-> 0,        \* status of the response, 0 while none is sent
    body        |-> NoPostBody,
    \* history, not read by the program
    before      |-> <<>> ]    \* the Goods rows when the request arrived

PostIdle ==
  /\ post = [c \in Calls |-> IdlePost]
  /\ created = <<>>

\* the runs of addItemToWishlist the user starts
Adds == {1, 2, 3}

IdleAdd ==
  [ pc       |-> "idle",
    \* history, not read by the program
    serverId |-> 0 ]    \* result.id of the response this run received

ClientIdle ==
  /\ currentWishlist = <<>>
  /\ adds = [a \in Adds |-> IdleAdd]
  /\ nextGoodId = 1

PriceIdle ==
  /\ priceValue = PriceUnset
  /\ clientValue = PriceUnset

\* the reservation requests, the goods and the guest names they draw on
Requests == {1, 2, 3}
GoodIds == {1}
\* the ids a request may name: a stored good and one that is not stored
RequestedIds == GoodIds \cup {2}
GuestNames == {"Alice", "Bob"}

\* a Goods row, and the instance a handler holds of it; 0 is null
Unreserved == [reservedBy |-> 0, reservationDate |-> 0]

NoBody == [error |-> "", message |-> "", reservedByGuest |-> 0, reservationDate |-> 0]

IdleRequest ==
  [ pc        |-> "idle",
    kind      |-> "",          \* reserve, unreserve
    id        |-> 0,           \* req.params.id
    guestName |-> "",          \* req.body.guestName
    guest     |-> 0,           \* let guest: the id of the Guests row
    good      |-> Unreserved,  \* const good: the instance findByPk returned
    loaded    |-> Unreserved,  \* the values the instance was loaded with
    status    |-> 0,           \* status of the response, 0 while none is sent
    body      |-> NoBody,
    \* history, not read by the program
    seen      |-> {} ]         \* the requests answered before this one arrived

DbIdle ==
  /\ guests = <<>>
  /\ goods = [g \in GoodIds |-> Unreserved]
  /\ requests = [q \in Requests |-> IdleRequest]
  /\ now = 1

Init ==
  /\ puppeteer \in BOOLEAN
  /\ ExtractionIdle
  /\ priceString = ""
  /\ PriceIdle
  /\ DbIdle
  /\ ImageIdle
  /\ ClientIdle
  /\ PostIdle
  /\ ClassifyIdle
  /\ SweepIdle
  /\ CascadeIdle

(***************************************************************************)
(* Time                                                                    *)
(***************************************************************************)
Min(a, b) == IF a <= b THEN a ELSE b

\* the time after which the operation awaited at pc has settled
OpLimit(pc) ==
  CASE pc \in {"goto1", "goto2"} -> NavTimeoutSec
    [] pc = "waitForSelector"    -> ReadyTimeoutSec
    [] OTHER                     -> MaxOpSec

\* goto and waitForSelector reject once their timeout has elapsed
CanSucceed(r) ==
  r.pc \in {"goto1", "goto2", "waitForSelector"} => r.opElapsed < OpLimit(r.pc)

\* Time passes for call c: up to the next instant at which its timer or the
\* timeout of its operation in flight is due
Tick(c) ==
  LET r       == calls[c]
      armed   == r.timeoutPromise = "pending"
      flying  == r.pc \in InFlightPcs
      toTimer == IF armed THEN ExtractionTimeoutSec - r.elapsed ELSE TickSec
      toOp    == IF flying THEN OpLimit(r.pc) - r.opElapsed ELSE TickSec
      d       == Min(TickSec, Min(toTimer, toOp))
  IN /\ armed \/ flying
     /\ d > 0
     /\ calls' = [calls EXCEPT ![c] =
                    [r EXCEPT !.elapsed   = IF armed THEN @ + d ELSE @,
                              !.opElapsed = IF flying THEN @ + d ELSE @]]
     /\ UNCHANGED <<otherVars, puppeteer, browsers, pages>>

\* variant: the timer abandons the extraction where it stands
TimerFires_Abandon(c) ==
  LET r == calls[c]
  IN /\ r.timeoutPromise = "pending"
     /\ r.elapsed >= ExtractionTimeoutSec
     /\ calls' = [calls EXCEPT ![c] =
                    [r EXCEPT !.timeoutPromise = "rejected", !.pc = "done",
                              !.result = Race(r.result, Rejected(TimeoutMsg))]]
     /\ UNCHANGED <<otherVars, puppeteer, browsers, pages>>

\* The setTimeout callback: rejects timeoutPromise; the race settles with it
\* unless the extraction promise settled before
TimerFires(c) ==
  LET r == calls[c]
  IN /\ r.timeoutPromise = "pending"
     /\ r.elapsed >= ExtractionTimeoutSec
     /\ calls' = [calls EXCEPT ![c] =
                    [r EXCEPT !.timeoutPromise = "rejected",
                              !.result = Race(r.result, Rejected(TimeoutMsg))]]
     /\ UNCHANGED <<otherVars, puppeteer, browsers, pages>>

(***************************************************************************)
(* The browser operations of a call, as it awaits them                     *)
(***************************************************************************)
\* the operation awaited at pc and, for page.goto, its waitUntil option
OpOf(pc) ==
  CASE pc = "launching"       -> [op |-> "puppeteer.launch", arg |-> ""]
    [] pc = "newPage"         -> [op |-> "browser.newPage", arg |-> ""]
    [] pc = "setup"           -> [op |-> "page.setRequestInterception", arg |-> ""]
    [] pc = "goto1"           -> [op |-> "page.goto", arg |-> "domcontentloaded"]
    [] pc = "goto2"           -> [op |-> "page.goto", arg |-> "load"]
    [] pc = "waitForSelector" -> [op |-> "page.waitForSelector", arg |-> ""]
    [] pc = "primary"         -> [op |-> "primary extractor", arg |-> ""]
    [] pc = "generic"         -> [op |-> "extractGenericInfo", arg |-> ""]
    [] pc = "content"         -> [op |-> "extractContentBasedInfo", arg |-> ""]
    [] pc = "closingPage"     -> [op |-> "page.close", arg |-> ""]
    [] pc = "closingBrowser"  -> [op |-> "browser.close", arg |-> ""]

Event(pc, ev) == [op |-> OpOf(pc).op, arg |-> OpOf(pc).arg, ev |-> ev]

\* the call whose record is r calls the operation awaited at pc and suspends
Invoked(r, pc) ==
  [r EXCEPT !.pc = pc, !.opElapsed = 0, !.ops = Append(@, Event(pc, "call"))]

\* the operation the call awaits has settled and the call resumes
Settled(r, ok) ==
  IF r.pc \in InFlightPcs
  THEN [r EXCEPT !.ops = Append(@, Event(r.pc, IF ok THEN "ok" ELSE "fail"))]
  ELSE r

(***************************************************************************)
(* The finally block of the extraction promise                             *)
(***************************************************************************)
\* what the finally block awaits first
CleanupEntry(page, browser) ==
  IF page # 0 THEN "closingPage"
  ELSE IF browser # 0 THEN "closingBrowser"
  ELSE "done"

\* variant: the browser is closed only by the branch that had no page
CleanupAfterPage_Skip(browser) == "done"

\* what the finally block does once page.close() has settled
CleanupAfterPage(browser) == IF browser # 0 THEN "closingBrowser" ELSE "done"

\* the extraction promise settles with the completion of the try block
SettleExtraction(r) ==
  [r EXCEPT !.pc = "done",
            !.extractionPromise = r.completion,
            !.result = Race(r.result, r.completion)]

\* close() has been called on page p / browser b
CloseCalled(objs, k) ==
  [objs EXCEPT ![k].closeCalls = @ + 1, ![k].state = "closing"]

\* Control reaches cleanup position next (one of closingPage, closingBrowser,
\* done) for the call whose record is r; bs and ps are the browsers and pages
\* as the step has left them
EnterCleanup(c, r, next, bs, ps) ==
  /\ calls' = [calls EXCEPT ![c] =
                 IF next = "done" THEN SettleExtraction(r)
                 ELSE Invoked(r, next)]
  /\ pages' = IF next = "closingPage" THEN CloseCalled(ps, r.page) ELSE ps
  /\ browsers' = IF next = "closingBrowser" THEN CloseCalled(bs, r.browser) ELSE bs

\* The try block is left with completion comp (a return or a throw)
ExitTry(c, r, comp, bs, ps) ==
  EnterCleanup(c, [r EXCEPT !.completion = comp],
               CleanupEntry(r.page, r.browser), bs, ps)

(***************************************************************************)
(* extractProductInfo, one action per resumption of the async function     *)
(***************************************************************************)
\* variant: the gate is applied without validating the URL first
Admission_NoValidate(url) ==
  IF ~IsSupported(ToLowerCase(ParseURL(url).hostname)) THEN "unsupported"
  ELSE "launch"

\* what the synchronous head of the try block decides for url
Admission(url) ==
  LET parsed == ParseURL(url)
  IN IF ~parsed.ok THEN "invalid"
     ELSE IF ~IsSupported(ToLowerCase(parsed.hostname)) THEN "unsupported"
     ELSE "launch"

\* extractProductInfo(url) runs up to its first await: the puppeteer check,
\* the timer, URL validation, the supported-domain gate and the call of
\* puppeteer.launch
Enter(c, u) ==
  LET r      == calls[c]
      domain == ToLowerCase(ParseURL(u).hostname)
      armed  == [r EXCEPT !.url = u, !.timeoutPromise = "pending", !.elapsed = 0]
      gated  == [armed EXCEPT !.domain = domain]
      adm    == Admission(u)
  IN /\ r.pc = "idle"
     /\ UNCHANGED puppeteer
     /\ IF ~puppeteer
        THEN /\ calls' = [calls EXCEPT ![c] =
                            [r EXCEPT !.url = u, !.pc = "done",
                                      !.result = Rejected(PuppeteerMissingMsg)]]
             /\ UNCHANGED <<browsers, pages>>
        ELSE CASE adm = "invalid" ->
                    ExitTry(c, armed, Rejected(InvalidUrlMsg), browsers, pages)
               [] adm = "unsupported" ->
                    ExitTry(c, gated, Rejected(UnsupportedMsg(domain)), browsers, pages)
               [] OTHER ->
                    /\ browsers' = Append(browsers,
                          [owner |-> c, state |-> "launching", closeCalls |-> 0])
                    /\ calls' = [calls EXCEPT ![c] =
                          [Invoked(gated, "launching") EXCEPT
                             !.launching = Len(browsers) + 1]]
                    /\ UNCHANGED pages

\* extractProductInfo(url) is called by a caller other than the extraction
\* endpoint; c then stands for no request to that endpoint
Call(c, u) == http[c].pc = "idle" /\ Enter(c, u) /\ UNCHANGED otherVars

\* puppeteer.launch settles; on success browser is assigned and newPage called
LaunchSettles(c, ok) ==
  LET r == Settled(calls[c], ok)
      b == r.launching
  IN /\ r.pc = "launching"
     /\ UNCHANGED <<puppeteer, otherVars>>
     /\ IF ok
        THEN /\ browsers' = [browsers EXCEPT ![b].state = "open"]
             /\ pages' = Append(pages,
                   [browser |-> b, owner |-> c, state |-> "creating",
                    closeCalls |-> 0, url |-> ""])
             /\ calls' = [calls EXCEPT ![c] =
                   [Invoked(r, "newPage") EXCEPT
                      !.browser = b, !.creating = Len(pages) + 1]]
        ELSE ExitTry(c, r, Rejected(LaunchFailedMsg),
                     [browsers EXCEPT ![b].state = "failed"], pages)

\* browser.newPage settles; a failure is rethrown as 'Failed to create
\* browser page'
NewPageSettles(c, ok) ==
  LET r == Settled(calls[c], ok)
      p == r.creating
  IN /\ r.pc = "newPage"
     /\ UNCHANGED <<puppeteer, otherVars>>
     /\ IF ok
        THEN /\ pages' = [pages EXCEPT ![p].state = "open"]
             /\ calls' = [calls EXCEPT ![c] =
                   [Invoked(r, "setup") EXCEPT !.page = p]]
             /\ UNCHANGED browsers
        ELSE ExitTry(c, r, Rejected(NewPageFailedMsg), browsers,
                     [pages EXCEPT ![p].state = "failed"])

\* variant: page.goto is called without await, so that page.waitForSelector
\* is called while the navigation is in flight
SetupSettles_NoAwait(c, ok) ==
  LET r == Settled(calls[c], ok)
  IN /\ r.pc = "setup"
     /\ UNCHANGED <<puppeteer, otherVars>>
     /\ IF ok
        THEN /\ calls' = [calls EXCEPT ![c] =
                   Invoked(Invoked(r, "goto1"), "waitForSelector")]
             /\ UNCHANGED <<browsers, pages>>
        ELSE ExitTry(c, r, Rejected(SetupFailedMsg), browsers, pages)

\* the timeouts, request interception, viewport, headers and the 200 ms
\* delay settle; on success page.goto is called with 'domcontentloaded'
SetupSettles(c, ok) ==
  LET r == Settled(calls[c], ok)
  IN /\ r.pc = "setup"
     /\ UNCHANGED <<puppeteer, otherVars>>
     /\ IF ok
        THEN /\ calls' = [calls EXCEPT ![c] =
                   Invoked(r, "goto1")]
             /\ UNCHANGED <<browsers, pages>>
        ELSE ExitTry(c, r, Rejected(SetupFailedMsg), browsers, pages)

\* the error a rejected page.goto carries: its timeout once that has elapsed,
\* a network error before
GotoError(r) ==
  IF r.opElapsed >= NavTimeoutSec THEN NavigationFailedMsg ELSE NetErrorMsg(r.url)

\* variant: a failure of the first page.goto is not caught
Goto1Settles_NoRetry(c, ok) ==
  LET r == Settled(calls[c], ok)
  IN /\ r.pc = "goto1"
     /\ ok => CanSucceed(r)
     /\ UNCHANGED <<puppeteer, otherVars>>
     /\ IF ok
        THEN /\ pages' = [pages EXCEPT ![r.page].url = r.url]
             /\ calls' = [calls EXCEPT ![c] =
                   Invoked(r, "waitForSelector")]
             /\ UNCHANGED browsers
        ELSE ExitTry(c, r, Rejected(GotoError(r)), browsers, pages)

\* the first page.goto settles; a failure is caught and page.goto is called
\* again with 'load'
Goto1Settles(c, ok) ==
  LET r == Settled(calls[c], ok)
  IN /\ r.pc = "goto1"
     /\ ok => CanSucceed(r)
     /\ UNCHANGED <<otherVars, puppeteer, browsers>>
     /\ IF ok
        THEN /\ pages' = [pages EXCEPT ![r.page].url = r.url]
             /\ calls' = [calls EXCEPT ![c] =
                   Invoked(r, "waitForSelector")]
        ELSE /\ calls' = [calls EXCEPT ![c] =
                   Invoked(r, "goto2")]
             /\ UNCHANGED pages

\* the second page.goto settles; its failure leaves the try block
Goto2Settles(c, ok) ==
  LET r == Settled(calls[c], ok)
  IN /\ r.pc = "goto2"
     /\ ok => CanSucceed(r)
     /\ UNCHANGED <<puppeteer, otherVars>>
     /\ IF ok
        THEN /\ pages' = [pages EXCEPT ![r.page].url = r.url]
             /\ calls' = [calls EXCEPT ![c] =
                   Invoked(r, "waitForSelector")]
             /\ UNCHANGED browsers
        ELSE ExitTry(c, r, Rejected(GotoError(r)), browsers, pages)

\* page.waitForSelector settles; on success the primary extractor is chosen
\* from the domain and called
\* variant: a failed ready wait is swallowed and extraction goes on
ReadySettles_Proceeds(c, ok) ==
  LET r == Settled(calls[c], ok)
  IN /\ r.pc = "waitForSelector"
     /\ ok => CanSucceed(r)
     /\ UNCHANGED <<puppeteer, otherVars>>
     /\ calls' = [calls EXCEPT ![c] =
           [Invoked(r, "primary") EXCEPT !.extractor = Dispatch(r.domain)]]
     /\ UNCHANGED <<browsers, pages>>

ReadySettles(c, ok) ==
  LET r == Settled(calls[c], ok)
  IN /\ r.pc = "waitForSelector"
     /\ ok => CanSucceed(r)
     /\ UNCHANGED <<puppeteer, otherVars>>
     /\ IF ok
        THEN /\ calls' = [calls EXCEPT ![c] =
                   [Invoked(r, "primary") EXCEPT
                      !.extractor = Dispatch(r.domain)]]
             /\ UNCHANGED <<browsers, pages>>
        ELSE ExitTry(c, r, Rejected(ReadyFailedMsg), browsers, pages)

\* variant: once a page has been closed the site-specific selectors are
\* skipped, a memory kept from one call to the next
PrimaryResult_Remembered(extractor, web) ==
  IF extractor = "generic" \/ \E p \in 1..Len(pages) : pages[p].state = "closed"
  THEN web.meta ELSE web.site

\* the primary extractor's result on a page: the else branch of the dispatch
\* runs extractGenericInfo itself
PrimaryResult(extractor, web) == IF extractor = "generic" THEN web.meta ELSE web.site

\* variant: page is a variable all calls share, holding the newest page
PageArg_Shared(r) == Len(pages)

\* the page handed to the extractors: the local page of the call
PageArg(r) == r.page

\* the primary extractor settles; its result either is returned or makes the
\* call go on to extractGenericInfo
PrimarySettles(c, ok) ==
  LET r    == Settled(calls[c], ok)
      info == PrimaryResult(r.extractor, Web(pages[PageArg(r)].url))
      got  == [r EXCEPT !.productInfo = info, !.primaryInfo = info,
                        !.ran = @ \cup {"primary"}]
  IN /\ r.pc = "primary"
     /\ ~ok => CanThrow(r.extractor)
     /\ UNCHANGED <<puppeteer, otherVars>>
     /\ IF ~ok
        THEN ExitTry(c, r, Rejected(ExtractorFailedMsg), browsers, pages)
        ELSE IF NeedsFallback(info, r.domain)
        THEN /\ calls' = [calls EXCEPT ![c] =
                   Invoked(got, "generic")]
             /\ UNCHANGED <<browsers, pages>>
        ELSE ExitTry(c, got, Fulfilled(info), browsers, pages)

\* the fallback extractGenericInfo settles and is merged; the result either
\* is returned or makes the call go on to extractContentBasedInfo
GenericSettles(c) ==
  LET r      == Settled(calls[c], TRUE)
      g      == Web(pages[PageArg(r)].url).meta
      merged == MergeFallback(r.productInfo, g, r.domain)
      got    == [r EXCEPT !.genericInfo = g, !.productInfo = merged,
                          !.ran = @ \cup {"meta"}]
  IN /\ r.pc = "generic"
     /\ UNCHANGED <<puppeteer, otherVars>>
     /\ IF NeedsFallback(merged, r.domain)
        THEN /\ calls' = [calls EXCEPT ![c] =
                   Invoked(got, "content")]
             /\ UNCHANGED <<browsers, pages>>
        ELSE ExitTry(c, got, Fulfilled(merged), browsers, pages)

\* extractContentBasedInfo settles and is merged; productInfo is returned
ContentSettles(c) ==
  LET r      == Settled(calls[c], TRUE)
      cb     == Web(pages[PageArg(r)].url).content
      merged == MergeFallback(r.productInfo, cb, r.domain)
      got    == [r EXCEPT !.contentBasedInfo = cb, !.productInfo = merged,
                          !.ran = @ \cup {"content"}]
  IN /\ r.pc = "content"
     /\ UNCHANGED <<puppeteer, otherVars>>
     /\ ExitTry(c, got, Fulfilled(merged), browsers, pages)

\* variant: a throwing page.close() is not caught
PageCloseSettles_Propagates(c, ok) ==
  LET r   == Settled(calls[c], ok)
      got == [r EXCEPT !.closeThrew = IF ok THEN @ ELSE @ \cup {"page"},
                       !.completion = IF ok THEN @ ELSE Rejected(CloseFailedMsg)]
  IN /\ r.pc = "closingPage"
     /\ UNCHANGED <<puppeteer, otherVars>>
     /\ EnterCleanup(c, got, IF ok THEN CleanupAfterPage(r.browser) ELSE "done",
                     browsers,
                     [pages EXCEPT ![r.page].state =
                                     IF ok THEN "closed" ELSE "closeFailed"])

\* page.close() settles; a throw is caught and logged
PageCloseSettles(c, ok) ==
  LET r   == Settled(calls[c], ok)
      got == [r EXCEPT !.closeThrew = IF ok THEN @ ELSE @ \cup {"page"}]
  IN /\ r.pc = "closingPage"
     /\ UNCHANGED <<puppeteer, otherVars>>
     /\ EnterCleanup(c, got, CleanupAfterPage(r.browser), browsers,
                     [pages EXCEPT ![r.page].state =
                                     IF ok THEN "closed" ELSE "closeFailed"])

\* variant: a throwing browser.close() is not caught
BrowserCloseSettles_Propagates(c, ok) ==
  LET r   == Settled(calls[c], ok)
      got == [r EXCEPT !.closeThrew = IF ok THEN @ ELSE @ \cup {"browser"},
                       !.completion = IF ok THEN @ ELSE Rejected(CloseFailedMsg)]
  IN /\ r.pc = "closingBrowser"
     /\ UNCHANGED <<puppeteer, otherVars>>
     /\ EnterCleanup(c, got, "done",
                     [browsers EXCEPT ![r.browser].state =
                                        IF ok THEN "closed" ELSE "closeFailed"],
                     pages)

\* browser.close() settles; a throw is caught and logged
BrowserCloseSettles(c, ok) ==
  LET r   == Settled(calls[c], ok)
      got == [r EXCEPT !.closeThrew = IF ok THEN @ ELSE @ \cup {"browser"}]
  IN /\ r.pc = "closingBrowser"
     /\ UNCHANGED <<puppeteer, otherVars>>
     /\ EnterCleanup(c, got, "done",
                     [browsers EXCEPT ![r.browser].state =
                                        IF ok THEN "closed" ELSE "closeFailed"],
                     pages)

\* the steps of the async function for call c, made with a url of urls
\* an awaited operation of call c settles
SettleStep(c) ==
    \/ \E ok \in BOOLEAN : LaunchSettles(c, ok)
    \/ \E ok \in BOOLEAN : NewPageSettles(c, ok)
    \/ \E ok \in BOOLEAN : SetupSettles(c, ok)
    \/ \E ok \in BOOLEAN : Goto1Settles(c, ok)
    \/ \E ok \in BOOLEAN : Goto2Settles(c, ok)
    \/ \E ok \in BOOLEAN : ReadySettles(c, ok)
    \/ \E ok \in BOOLEAN : PrimarySettles(c, ok)
    \/ GenericSettles(c)
    \/ ContentSettles(c)
    \/ \E ok \in BOOLEAN : PageCloseSettles(c, ok)
    \/ \E ok \in BOOLEAN : BrowserCloseSettles(c, ok)

PipelineStep(c, urls) ==
    \/ \E u \in urls : Call(c, u)
    \/ SettleStep(c)

\* time passes for call c and its timer fires
TimeStep(c) ==
    \/ TimerFires(c)
    \/ Tick(c)

(***************************************************************************)
(* POST /api/extract-product-info                                          *)
(***************************************************************************)
\* req.body.url: a url of URLS, none, or the empty string
HttpUrls == URLS \cup {Null, ""}

RequiredMsg == "URL is required"
InvalidFormatMsg == "Invalid URL format"
TimedOutResponseMsg == "Product extraction timed out. The website took too long to respond."
ExtractFailedMsg == "Failed to extract product information"

\* the response to a request whose extractProductInfo call has settled
ExtractResponse(result) ==
  IF result.state = "fulfilled"
  THEN [status |-> 200, body |-> Body({"success", "data"}, TRUE, "", result.info)]
  ELSE IF result.error # "" /\ Includes(result.error, "timed out")
  THEN [status |-> 408,
        body |-> Body({"success", "error"}, FALSE, TimedOutResponseMsg, NoInfo)]
  ELSE [status |-> 500,
        body |-> Body({"success", "error"}, FALSE,
                      IF result.error # "" THEN result.error ELSE ExtractFailedMsg,
                      NoInfo)]

\* the request arrives: the url is checked and extractProductInfo is called
HttpRequest(c, url) ==
  LET bad(msg) == [http EXCEPT ![c] =
                     [pc |-> "responded", url |-> url, status |-> 400,
                      body |-> Body({"error"}, FALSE, msg, NoInfo)]]
  IN /\ http[c].pc = "idle"
     /\ calls[c].pc = "idle"
     /\ UNCHANGED sideVars
     /\ IF Falsy(url)
        THEN http' = bad(RequiredMsg) /\ UNCHANGED extractionVars
        ELSE IF ~ParseURL(url).ok
        THEN http' = bad(InvalidFormatMsg) /\ UNCHANGED extractionVars
        ELSE /\ http' = [http EXCEPT ![c].pc = "awaiting", ![c].url = url]
             /\ Enter(c, url)

\* await extractProductInfo(url) resumes and the response is sent
HttpResponds(c) ==
  LET answer == ExtractResponse(calls[c].result)
  IN /\ http[c].pc = "awaiting"
     /\ calls[c].result.state # "pending"
     /\ http' = [http EXCEPT ![c].pc = "responded",
                             ![c].status = answer.status,
                             ![c].body = answer.body]
     /\ UNCHANGED <<extractionVars, sideVars>>

HttpStep(c) ==
    \/ \E url \in HttpUrls : HttpRequest(c, url)
    \/ HttpResponds(c)

\* one call at a time, made directly or by the extraction endpoint
Next == \E c \in {1} : PipelineStep(c, URLS) \/ TimeStep(c) \/ HttpStep(c)

Spec == Init /\ [][Next]_vars

\* every operation in flight settles (each has a timeout of its own or of the
\* browser protocol) and a due timer fires
Fairness ==
  \A c \in Calls :
    /\ WF_vars(\E ok \in BOOLEAN : LaunchSettles(c, ok))
    /\ WF_vars(\E ok \in BOOLEAN : NewPageSettles(c, ok))
    /\ WF_vars(\E ok \in BOOLEAN : SetupSettles(c, ok))
    /\ WF_vars(\E ok \in BOOLEAN : Goto1Settles(c, ok))
    /\ WF_vars(\E ok \in BOOLEAN : Goto2Settles(c, ok))
    /\ WF_vars(\E ok \in BOOLEAN : ReadySettles(c, ok))
    /\ WF_vars(\E ok \in BOOLEAN : PrimarySettles(c, ok))
    /\ WF_vars(GenericSettles(c))
    /\ WF_vars(ContentSettles(c))
    /\ WF_vars(\E ok \in BOOLEAN : PageCloseSettles(c, ok))
    /\ WF_vars(\E ok \in BOOLEAN : BrowserCloseSettles(c, ok))
    /\ WF_vars(TimerFires(c))
    /\ WF_vars(Tick(c))
    /\ WF_vars(HttpResponds(c))

FairSpec == Spec /\ Fairness

\* the urls of the calls that run side by side
ConcURLS == {"https://M.Rozetka.com.ua/p1", "https://www.olx.ua/p3"}

\* two calls, interleaved at every await; the timer of a call acts on the
\* promises of that call alone, and here every operation settles before one
\* is due
ConcNext == \E c \in Calls : PipelineStep(c, ConcURLS)

ConcSpec == Init /\ [][ConcNext]_vars

TypeOK ==
  /\ puppeteer \in BOOLEAN
  /\ \A c \in Calls : calls[c].pc \in InFlightPcs \cup {"idle", "done"}

(***************************************************************************)
(* The price normalizer applied to bounded inputs                          *)
(***************************************************************************)
\* longest price text enumerated over PriceAlphabet
MaxPriceLen == 3

PriceAlphabet == {"0", "1", ",", ".", " ", "$"}

RECURSIVE StringsUpTo(_)
StringsUpTo(n) ==
  IF n = 0 THEN {""}
  ELSE LET shorter == StringsUpTo(n - 1)
       IN shorter \cup {s \o ch : s \in shorter, ch \in PriceAlphabet}

\* the price texts of the documented examples; "grn" and "E" stand for the
\* hryvnia abbreviation and the euro sign
RepresentativePrices ==
  {"1 234,56 grn", "$1,299.99", "E99,90", "1.234,56", "free", ""}

\* price texts with several commas and one dot, the dot before, between and
\* after the commas, and texts whose number is zero
SeparatorPrices == {"1.2,3,4", "1,2.3,4", "1,2,3.4", "0.00 grn", "$0"}

PriceInputs ==
  RepresentativePrices \cup SeparatorPrices \cup StringsUpTo(MaxPriceLen)

PriceInit ==
  /\ puppeteer = TRUE
  /\ ExtractionIdle
  /\ priceString \in PriceInputs
  /\ PriceIdle
  /\ DbIdle
  /\ ImageIdle
  /\ ClientIdle
  /\ PostIdle
  /\ ClassifyIdle
  /\ SweepIdle
  /\ CascadeIdle

\* POST /api/goods normalizes the price of the product it stores
ServerNormalizes ==
  /\ priceValue = PriceUnset
  /\ priceValue' = ServerPriceValue(priceString)
  /\ UNCHANGED <<exceptPrice, priceString, clientValue>>

\* the client fills the price field of the form from the extracted price
ClientNormalizes ==
  /\ clientValue = PriceUnset
  /\ clientValue' = ExtractPriceValue(priceString)
  /\ UNCHANGED <<exceptPrice, priceString, priceValue>>

PriceNext == ServerNormalizes \/ ClientNormalizes

PriceSpec == PriceInit /\ [][PriceNext]_vars

(***************************************************************************)
(* Reservations: PUT and DELETE /api/goods/:id/reserve                     *)
(*                                                                         *)
(* Each request runs its handler once, one action per await.  A query      *)
(* takes effect at the step at which it settles; ok = FALSE is a query     *)
(* that rejects, which the handler's catch turns into status 500.          *)
(***************************************************************************)
ReserveInit ==
  /\ puppeteer = TRUE
  /\ ExtractionIdle
  /\ priceString = ""
  /\ PriceIdle
  /\ DbIdle
  /\ ImageIdle
  /\ ClientIdle
  /\ PostIdle
  /\ ClassifyIdle
  /\ SweepIdle
  /\ CascadeIdle

\* res.status(s).json(b)
Respond(q, s, b) ==
  requests' = [requests EXCEPT ![q].pc = "done", ![q].status = s, ![q].body = b]

ServerError(q, msg) == Respond(q, 500, [NoBody EXCEPT !.error = msg])

\* Guest.findOne({ where: { name } }): the id of a row with that name, 0 if none
FindGuest(name) ==
  LET found == {i \in 1..Len(guests) : guests[i].name = name}
  IN IF found = {} THEN 0 ELSE CHOOSE i \in found : \A j \in found : i <= j

\* the requests whose response has been sent
Answered == {q \in Requests : requests[q].pc = "done"}

\* PUT /api/goods/:id/reserve arrives; the handler calls Guest.findOne
ReserveRequest(q, id, guestName) ==
  /\ requests[q].pc = "idle"
  /\ requests' = [requests EXCEPT ![q] =
        [@ EXCEPT !.pc = "findGuest", !.kind = "reserve", !.id = id,
                  !.guestName = guestName, !.seen = Answered]]
  /\ UNCHANGED <<exceptDb, guests, goods, now>>

\* DELETE /api/goods/:id/reserve arrives; the handler calls Goods.findByPk
UnreserveRequest(q, id) ==
  /\ requests[q].pc = "idle"
  /\ requests' = [requests EXCEPT ![q] =
        [@ EXCEPT !.pc = "findGood", !.kind = "unreserve", !.id = id,
                  !.seen = Answered]]
  /\ UNCHANGED <<exceptDb, guests, goods, now>>

\* Guest.findOne settles; a guest that is not found is created
FindGuestSettles(q, ok) ==
  LET r     == requests[q]
      found == FindGuest(r.guestName)
  IN /\ r.pc = "findGuest"
     /\ IF ~ok THEN ServerError(q, "Failed to reserve product")
        ELSE requests' = [requests EXCEPT ![q] =
               IF found # 0 THEN [r EXCEPT !.guest = found, !.pc = "findGood"]
               ELSE [r EXCEPT !.pc = "createGuest"]]
     /\ UNCHANGED <<exceptDb, guests, goods, now>>

\* Guest.create settles
CreateGuestSettles(q, ok) ==
  LET r == requests[q]
  IN /\ r.pc = "createGuest"
     /\ IF ~ok
        THEN ServerError(q, "Failed to reserve product") /\ UNCHANGED guests
        ELSE /\ guests' = Append(guests, [name |-> r.guestName])
             /\ requests' = [requests EXCEPT ![q] =
                   [r EXCEPT !.guest = Len(guests) + 1, !.pc = "findGood"]]
     /\ UNCHANGED <<exceptDb, goods, now>>

\* the fields the handler assigns to the instance before it saves it
ReservedFields(kind, guest, date) ==
  IF kind = "unreserve" THEN Unreserved
  ELSE [reservedBy |-> guest, reservationDate |-> date]

\* Goods.findByPk settles: 404 when there is no such good, otherwise the
\* reservation fields are assigned and good.save() is called
FindGoodSettles(q, ok) ==
  LET r == requests[q]
  IN /\ r.pc = "findGood"
     /\ IF ~ok
        THEN /\ ServerError(q, IF r.kind = "reserve"
                                 THEN "Failed to reserve product"
                                 ELSE "Failed to remove reservation")
             /\ UNCHANGED now
        ELSE IF r.id \notin GoodIds
        THEN /\ Respond(q, 404, [NoBody EXCEPT !.error = "Product not found"])
             /\ UNCHANGED now
        ELSE /\ requests' = [requests EXCEPT ![q] =
                  [r EXCEPT !.pc = "save",
                            !.loaded = goods[r.id],
                            !.good = ReservedFields(r.kind, r.guest, now)]]
             /\ now' = IF r.kind = "reserve" THEN now + 1 ELSE now
     /\ UNCHANGED <<exceptDb, guests, goods>>

\* instance.save() updates the columns whose value was changed on the
\* instance since it was loaded, and leaves the others as the row has them
Saved(row, instance, loaded) ==
  [f \in DOMAIN row |-> IF instance[f] # loaded[f] THEN instance[f] ELSE row[f]]

\* good.save() settles: the row takes the changed fields of the instance
SaveSettles(q, ok) ==
  LET r == requests[q]
  IN /\ r.pc = "save"
     /\ IF ~ok
        THEN /\ ServerError(q, IF r.kind = "reserve"
                                 THEN "Failed to reserve product"
                                 ELSE "Failed to remove reservation")
             /\ UNCHANGED goods
        ELSE /\ goods' = [goods EXCEPT ![r.id] = Saved(@, r.good, r.loaded)]
             /\ IF r.kind = "reserve"
                THEN requests' = [requests EXCEPT ![q].pc = "reload"]
                ELSE Respond(q, 200, [NoBody EXCEPT !.message =
                                        "Product reservation removed successfully"])
     /\ UNCHANGED <<exceptDb, guests, now>>

\* good.reload({ include: reservedByGuest }) settles and the response is sent
ReloadSettles(q, ok) ==
  LET r == requests[q]
  IN /\ r.pc = "reload"
     /\ IF ~ok THEN ServerError(q, "Failed to reserve product")
        ELSE Respond(q, 200,
               [NoBody EXCEPT !.message = "Product reserved successfully",
                              !.reservedByGuest = goods[r.id].reservedBy,
                              !.reservationDate = goods[r.id].reservationDate])
     /\ UNCHANGED <<exceptDb, guests, goods, now>>

ReserveNext ==
  \E q \in Requests :
    \/ \E id \in RequestedIds, name \in GuestNames : ReserveRequest(q, id, name)
    \/ \E id \in RequestedIds : UnreserveRequest(q, id)
    \/ \E ok \in BOOLEAN : FindGuestSettles(q, ok)
    \/ \E ok \in BOOLEAN : CreateGuestSettles(q, ok)
    \/ \E ok \in BOOLEAN : FindGoodSettles(q, ok)
    \/ \E ok \in BOOLEAN : SaveSettles(q, ok)
    \/ \E ok \in BOOLEAN : ReloadSettles(q, ok)

ReserveSpec == ReserveInit /\ [][ReserveNext]_vars

(***************************************************************************)
(* Image address resolution applied to the addresses a page can hold       *)
(***************************************************************************)
\* how an address found in an attribute or a meta tag can begin
ImagePrefixes == {"https://", "http://", "//", "/", "./", "../", ""}
ImageRests == {"cdn.x.com/a.jpg", "img/a.jpg", "a.jpg"}
ImageInputs == {pre \o rest : pre \in ImagePrefixes, rest \in ImageRests}

PageUrls ==
  { "https://site.com/p/1", "https://M.Rozetka.com.ua/p1", "http://prom.ua/p2",
    "https://www.olx.ua/d/p3?x=1" }

ImageInit ==
  /\ puppeteer = TRUE
  /\ ExtractionIdle
  /\ priceString = ""
  /\ PriceIdle
  /\ DbIdle
  /\ ClientIdle
  /\ PostIdle
  /\ ClassifyIdle
  /\ SweepIdle
  /\ CascadeIdle
  /\ imageUrl \in ImageInputs
  /\ pageUrl \in PageUrls
  /\ image = Null

\* an extractor has read imageUrl off the page and returns the image
ResolvesImage ==
  /\ image = Null
  /\ image' = ResolveImage(imageUrl, pageUrl)
  /\ UNCHANGED <<exceptImage, imageUrl, pageUrl>>

ImageNext == ResolvesImage

ImageSpec == ImageInit /\ [][ImageNext]_vars

(***************************************************************************)
(* The selector cascade of the site-specific extractors, one field at a    *)
(* time: for (const selector of selectors) { try { element = page.$(..);   *)
(* if (element) { field = evaluate(..); if (field) break; } } catch {} }   *)
(***************************************************************************)
MaxCandidates == 3

\* page.$ finds no element for the selector
Miss == "<miss>"
\* page.$ or page.evaluate rejects
Throws == "<throws>"
\* what the element's text or src can be; "" is an element without text
Yields == {"", "A", "B"}

Outcomes == {Miss, Throws} \cup Yields

RECURSIVE CandidateLists(_)
CandidateLists(n) ==
  IF n = 0 THEN {<<>>}
  ELSE LET shorter == CandidateLists(n - 1)
       IN shorter \cup {Append(l, o) : l \in shorter, o \in Outcomes}

CascadeInit ==
  /\ puppeteer = TRUE
  /\ ExtractionIdle
  /\ priceString = ""
  /\ PriceIdle
  /\ DbIdle
  /\ ImageIdle
  /\ ClientIdle
  /\ PostIdle
  /\ ClassifyIdle
  /\ SweepIdle
  /\ candidates \in CandidateLists(MaxCandidates)
  /\ tried = 0
  /\ field = Null
  /\ cascadePc = "loop"

\* variant: the loop has no break, a later candidate overwrites a hit
TryCandidate_NoBreak ==
  /\ cascadePc = "loop"
  /\ tried < Len(candidates)
  /\ tried' = tried + 1
  /\ LET outcome == candidates[tried + 1]
     IN field' = IF outcome \in {Miss, Throws} THEN field ELSE outcome
  /\ UNCHANGED <<exceptCascade, candidates, cascadePc>>

\* one iteration of the for loop
TryCandidate ==
  /\ cascadePc = "loop"
  /\ tried < Len(candidates)
  /\ tried' = tried + 1
  /\ LET outcome == candidates[tried + 1]
     IN IF outcome \in {Miss, Throws}
        THEN UNCHANGED <<field, cascadePc>>
        ELSE /\ field' = outcome
             /\ cascadePc' = IF Falsy(outcome) THEN "loop" ELSE "returned"
  /\ UNCHANGED <<exceptCascade, candidates>>

\* the list is exhausted: the extractor returns the field as it stands
CascadeReturns ==
  /\ cascadePc = "loop"
  /\ tried = Len(candidates)
  /\ cascadePc' = "returned"
  /\ UNCHANGED <<exceptCascade, candidates, tried, field>>

CascadeNext == TryCandidate \/ CascadeReturns

CascadeSpec == CascadeInit /\ [][CascadeNext]_vars

(***************************************************************************)
(* The price of the site-specific extractors after their selector list:    *)
(* extractRozetkaInfo's search of the page text and of price-like          *)
(* elements, and the plain return of the others                            *)
(***************************************************************************)
At(s, i) == IF i >= 1 /\ i <= Len(s) THEN SubSeq(s, i, i) ELSE ""

\* \w
WordChar(ch) ==
  ch # "" /\ (IndexOf(UpperChars \o LowerChars \o "0123456789_", ch) > 0)

\* the currency alternatives of the patterns that plain text can carry here:
\* the sign $ and the word UAH, which the patterns put between \b and \b
CurrencyTokens == {"$", "UAH"}

\* [\d\s.,]
PriceClass == Digits \cup {" ", ".", ","}

\* token t matches at position i of s, case-insensitively
TokenAt(s, i, t) ==
  /\ i >= 1 /\ i + Len(t) - 1 <= Len(s)
  /\ ToLowerCase(SubSeq(s, i, i + Len(t) - 1)) = ToLowerCase(t)
  /\ IsLetters(t) =>
       /\ ~WordChar(At(s, i - 1))
       /\ ~WordChar(At(s, i + Len(t)))

\* the length of the run of [\d\s.,] that starts at position i
ClassRunAt(s, i) ==
  IF i > Len(s) THEN 0 ELSE RunLength(SubSeq(s, i, Len(s)), PriceClass)

MinOf(S) == CHOOSE i \in S : \A j \in S : i <= j
MaxOf(S) == CHOOSE i \in S : \A j \in S : j <= i

\* a token followed by at least one separator character and then a group
\* ([\d\s.,]+); the separators are greedy and give back what the group needs
GroupAfter(s, from, sepClass, minSep) ==
  LET sepLen == IF from > Len(s) THEN 0
                ELSE RunLength(SubSeq(s, from, Len(s)), sepClass)
      ns     == {n \in minSep..sepLen : ClassRunAt(s, from + n) >= 1}
  IN IF ns = {} THEN Null
     ELSE SubSeq(s, from + MaxOf(ns),
                 from + MaxOf(ns) + ClassRunAt(s, from + MaxOf(ns)) - 1)

\* /(?:currency)[\s]?([\d\s.,]+)/i : match[1], Null without a match
Prefixed(s) ==
  LET group(i, t) ==
        LET from == i + Len(t)
            ns   == {n \in {0, 1} :
                       /\ n = 1 => At(s, from) = " "
                       /\ ClassRunAt(s, from + n) >= 1}
        IN IF ~TokenAt(s, i, t) \/ ns = {} THEN Null
           ELSE SubSeq(s, from + MaxOf(ns),
                       from + MaxOf(ns) + ClassRunAt(s, from + MaxOf(ns)) - 1)
      at == {i \in 1..Len(s) : \E t \in CurrencyTokens : group(i, t) # Null}
  IN IF at = {} THEN Null
     ELSE group(MinOf(at), CHOOSE t \in CurrencyTokens : group(MinOf(at), t) # Null)

\* /([\d\s.,]+)[\s]?(?:currency)/i : match[1], Null without a match
Suffixed(s) ==
  LET at == {j \in 1..Len(s) :
               /\ At(s, j) \in PriceClass
               /\ \E t \in CurrencyTokens : TokenAt(s, j + ClassRunAt(s, j), t)}
  IN IF at = {} THEN Null
     ELSE SubSeq(s, MinOf(at), MinOf(at) + ClassRunAt(s, MinOf(at)) - 1)

\* /price[:\s]+([\d\s.,]+)/i : match[1], Null without a match
Labelled(s) ==
  LET label == "price"
      at == {i \in 1..Len(s) :
               /\ i + Len(label) - 1 <= Len(s)
               /\ ToLowerCase(SubSeq(s, i, i + Len(label) - 1)) = label
               /\ GroupAfter(s, i + Len(label), {":", " "}, 1) # Null}
  IN IF at = {} THEN Null
     ELSE GroupAfter(s, MinOf(at) + Len(label), {":", " "}, 1)

\* the first pattern that matches decides; the group is cleaned and trimmed
Sweep(s) ==
  LET group == IF Prefixed(s) # Null THEN Prefixed(s)
               ELSE IF Suffixed(s) # Null THEN Suffixed(s)
               ELSE Labelled(s)
  IN IF group = Null THEN Null ELSE Trim(SelectChars(group, PriceClass))

Retailers == {DispatchOrder[i] : i \in 1..Len(DispatchOrder)}

\* variant: no extractor searches the page text
RetailerPrice_SelectorsOnly(extractor, selector, body, alt) ==
  IF extractor = "rozetka" /\ Falsy(selector) /\ alt # Null THEN alt ELSE selector

\* the price after the selector list of the extractor
RetailerPrice(extractor, selector, body, alt) ==
  LET swept == IF Falsy(selector) /\ body # Throws /\ Sweep(body) # Null
               THEN Sweep(body) ELSE selector
      found == IF Falsy(swept) /\ alt # Null THEN alt ELSE swept
  IN IF extractor = "rozetka" THEN found ELSE selector

SelectorPrices == {Null, "", "120 UAH"}

BodyTexts ==
  { "", "Lamp 40W", "Now $ 25.50 only", "only 300 UAH", "300UAH",
    "Price: 1,5 per item", "price:  ", "USD 7", Throws }

AltPrices == {Null, "99"}

SweepInit ==
  /\ puppeteer = TRUE
  /\ ExtractionIdle
  /\ priceString = ""
  /\ PriceIdle
  /\ DbIdle
  /\ ImageIdle
  /\ ClientIdle
  /\ PostIdle
  /\ ClassifyIdle
  /\ CascadeIdle
  /\ retailer \in Retailers
  /\ selectorPrice \in SelectorPrices
  /\ bodyText \in BodyTexts
  /\ altPrice \in AltPrices
  /\ retailerPrice = Unreturned

\* the extractor returns its price
ExtractorReturnsPrice ==
  /\ retailerPrice = Unreturned
  /\ retailerPrice' = RetailerPrice(retailer, selectorPrice, bodyText, altPrice)
  /\ UNCHANGED <<exceptSweep, retailer, selectorPrice, bodyText, altPrice>>

SweepNext == ExtractorReturnsPrice

SweepSpec == SweepInit /\ [][SweepNext]_vars

(***************************************************************************)
(* Classification of a product URL: the validation and gate at the head    *)
(* of extractProductInfo's try block and the dispatch chain, applied to    *)
(* subdomain and case variants of the supported domains                    *)
(***************************************************************************)
UpperOf(ch) ==
  LET k == IndexOf(LowerChars, ch)
  IN IF k = 0 THEN ch ELSE SubSeq(UpperChars, k, k)

RECURSIVE ToUpperCase(_)
ToUpperCase(s) ==
  IF s = "" THEN ""
  ELSE UpperOf(SubSeq(s, 1, 1)) \o ToUpperCase(SubSeq(s, 2, Len(s)))

SupportedDomains == {SUPPORTED_DOMAINS[i] : i \in 1..Len(SUPPORTED_DOMAINS)}

\* subdomain prefixes under which retailers serve pages
Subdomains == {"", "www.", "m.", "shop.", "promo."}

\* the addresses of a page of the domain, as typed or pasted
VariantUrls(domain) ==
  {"https://" \o host \o "/p" :
     host \in {sub \o domain : sub \in Subdomains}
            \cup {ToUpperCase(sub \o domain) : sub \in Subdomains}}

ClassifyInit ==
  /\ puppeteer = TRUE
  /\ ExtractionIdle
  /\ priceString = ""
  /\ PriceIdle
  /\ DbIdle
  /\ ImageIdle
  /\ ClientIdle
  /\ PostIdle
  /\ CascadeIdle
  /\ SweepIdle
  /\ siteDomain \in SupportedDomains
  /\ siteUrl \in VariantUrls(siteDomain)
  /\ gate = ""
  /\ routed = ""

\* new URL, the supported-domain test and the if/else-if chain
Classifies ==
  /\ gate = ""
  /\ gate' = Admission(siteUrl)
  /\ routed' = IF Admission(siteUrl) = "launch"
               THEN Dispatch(ToLowerCase(ParseURL(siteUrl).hostname))
               ELSE "none"
  /\ UNCHANGED <<exceptClassify, siteDomain, siteUrl>>

ClassifyNext == Classifies

ClassifySpec == ClassifyInit /\ [][ClassifyNext]_vars

(***************************************************************************)
(* POST /api/goods: a product is added to a list, from a URL whose         *)
(* product is extracted or from the values the client typed                *)
(***************************************************************************)
MaxGoods == 2

PostUrls ==
  { Null, " ", "not a url", "https://shop.unknownsite.io/item",
    "https://M.Rozetka.com.ua/p1", "https://www.olx.ua/p3" }

PostNames == {Null, "Gift"}
PostPrices == {"10"}

AddFailedMsg == "Failed to add product to wishlist"
DbFailedMsg == "SequelizeDatabaseError"

\* the values db.Goods.create is called with
GoodsRow(productInfo, name, url) ==
  [ name     |-> IF ~Falsy(productInfo.title) THEN productInfo.title
                 ELSE IF ~Falsy(name) THEN name ELSE "Unknown Product",
    price    |-> ServerPriceValue(productInfo.price),
    imageUrl |-> IF ~Falsy(productInfo.image) THEN productInfo.image ELSE Null,
    url      |-> IF Falsy(url) THEN "" ELSE url,
    listId   |-> 1 ]

PostAnswer(c, status, body) ==
  [post EXCEPT ![c].pc = "responded", ![c].status = status, ![c].body = body]

\* the request arrives: with a url the product is extracted, without one the
\* typed values make the product; requests are taken until one has called
\* extractProductInfo
PostRequest(c, url, name, price) ==
  LET taken == [IdlePost EXCEPT !.url = url, !.name = name, !.price = price,
                                !.before = created]
      typed == Info(IF Falsy(name) THEN "Manual Entry Product" ELSE name,
                    IF Falsy(price) THEN Null ELSE price, Null)
  IN /\ post[c].pc \in {"idle", "responded"}
     /\ calls[c].pc = "idle"
     /\ Len(created) < MaxGoods
     /\ UNCHANGED <<exceptPostCall, created>>
     /\ IF ~Falsy(url) /\ Trim(url) # ""
        THEN /\ post' = [post EXCEPT ![c] =
                   [taken EXCEPT !.pc = "extracting", !.kind = "url"]]
             /\ Enter(c, url)
        ELSE /\ post' = [post EXCEPT ![c] =
                   [taken EXCEPT !.pc = "creating", !.kind = "manual",
                                 !.productInfo = typed,
                                 !.row = GoodsRow(typed, name, url)]]
             /\ UNCHANGED extractionVars

\* variant: a failed extraction is caught and the product is made of the
\* typed values
PostResumes_Fallback(c) ==
  LET result == calls[c].result
      r      == post[c]
      info   == IF result.state = "fulfilled" THEN result.info
                ELSE Info(r.name, r.price, Null)
  IN /\ r.pc = "extracting"
     /\ result.state # "pending"
     /\ UNCHANGED <<exceptPostCall, extractionVars, created>>
     /\ post' = [post EXCEPT ![c].pc = "creating",
                             ![c].productInfo = info,
                             ![c].row = GoodsRow(info, r.name, r.url)]

\* await extractProductInfo(url) resumes: a rejection goes to the catch
\* block, a result is normalized and handed to db.Goods.create
PostResumes(c) ==
  LET result == calls[c].result
      r      == post[c]
  IN /\ r.pc = "extracting"
     /\ result.state # "pending"
     /\ UNCHANGED <<exceptPostCall, extractionVars, created>>
     /\ IF result.state = "rejected"
        THEN post' = PostAnswer(c, 500, [NoPostBody EXCEPT !.error =
                       IF result.error # "" THEN result.error ELSE AddFailedMsg])
        ELSE post' = [post EXCEPT ![c].pc = "creating",
                                  ![c].productInfo = result.info,
                                  ![c].row = GoodsRow(result.info, r.name, r.url)]

\* db.Goods.create settles and the response is sent
CreateGoodSettles(c, ok) ==
  LET r == post[c]
  IN /\ r.pc = "creating"
     /\ UNCHANGED <<exceptPostCall, extractionVars>>
     /\ IF ok
        THEN /\ created' = Append(created, r.row)
             /\ post' = PostAnswer(c, 200,
                   [NoPostBody EXCEPT !.id = Len(created) + 1,
                      !.message = "Product added to wishlist successfully"])
        ELSE /\ created' = created
             /\ post' = PostAnswer(c, 500, [NoPostBody EXCEPT !.error = DbFailedMsg])

PostStep(c) ==
    \/ \E url \in PostUrls, name \in PostNames, price \in PostPrices :
         PostRequest(c, url, name, price)
    \/ PostResumes(c)
    \/ \E ok \in BOOLEAN : CreateGoodSettles(c, ok)

\* one request at a time
PostNext == \E c \in {1} : SettleStep(c) \/ TimeStep(c) \/ PostStep(c)

PostSpec == Init /\ [][PostNext]_vars

(***************************************************************************)
(* The client's addItemToWishlist with a list that exists on the server:   *)
(* the item is pushed with a temporary id, POST /api/goods is awaited,     *)
(* and on success the server's id is stored in the local list              *)
(***************************************************************************)
\* `temp_${Date.now()}` of run a, and result.id.toString()
TempId(a) == [temp |-> TRUE, n |-> a]
ServerId(k) == [temp |-> FALSE, n |-> k]

\* currentWishlist.findIndex(item => item.id.startsWith('temp_')), from 1;
\* 0 when there is none
FirstTemp(list) ==
  LET temps == {i \in 1..Len(list) : list[i].id.temp}
  IN IF temps = {} THEN 0 ELSE CHOOSE i \in temps : \A j \in temps : i <= j

\* the form is submitted: the new item is pushed and the request is sent
AddItem(a) ==
  /\ adds[a].pc = "idle"
  \* by: the run that pushed the item; history, not read by the program
  /\ currentWishlist' = Append(currentWishlist, [id |-> TempId(a), by |-> a])
  /\ adds' = [adds EXCEPT ![a].pc = "posting"]
  /\ UNCHANGED <<exceptClient, nextGoodId>>

\* the response arrives: response.ok with the id of the row the server
\* created, or a failure, which leaves the local list as it is
ResponseArrives(a, ok) ==
  /\ adds[a].pc = "posting"
  /\ UNCHANGED exceptClient
  /\ IF ok
     THEN LET itemIndex == FirstTemp(currentWishlist)
          IN /\ nextGoodId' = nextGoodId + 1
             /\ adds' = [adds EXCEPT ![a].pc = "added", ![a].serverId = nextGoodId]
             /\ currentWishlist' =
                  IF itemIndex # 0
                  THEN [currentWishlist EXCEPT ![itemIndex].id = ServerId(nextGoodId)]
                  ELSE currentWishlist
     ELSE /\ adds' = [adds EXCEPT ![a].pc = "failed"]
          /\ UNCHANGED <<currentWishlist, nextGoodId>>

ClientInit ==
  /\ puppeteer = TRUE
  /\ ExtractionIdle
  /\ priceString = ""
  /\ PriceIdle
  /\ DbIdle
  /\ ImageIdle
  /\ CascadeIdle
  /\ SweepIdle
  /\ ClassifyIdle
  /\ PostIdle
  /\ ClientIdle

ClientNext ==
  \E a \in Adds :
    \/ AddItem(a)
    \/ \E ok \in BOOLEAN : ResponseArrives(a, ok)

ClientSpec == ClientInit /\ [][ClientNext]_vars

(***************************************************************************)
(* Properties                                                              *)
(***************************************************************************)
BrowserIds == 1..Len(browsers)
PageIds == 1..Len(pages)

\* the call has been made
Made(c) == calls[c].pc # "idle"

\* the extraction promise of the call has settled
PipelineSettled(c) == calls[c].extractionPromise.state # "pending"

\* the call failed with the error of the 20 second timer
TimedOut(c) == calls[c].result = Rejected(TimeoutMsg)

\* puppeteer.launch resolved with browser b / newPage resolved with page p
Launched(b) == browsers[b].state \notin {"launching", "failed"}
Created(p) == pages[p].state \notin {"creating", "failed"}

\* no key of SUPPORTED_DOMAINS occurs in the hostname
NoKeyOccurs(domain) ==
  \A i \in 1..Len(SUPPORTED_DOMAINS) :
    ~Includes(domain, SplitFirst(SUPPORTED_DOMAINS[i], "."))

\* no retailer with an extractor of its own occurs in the hostname
NoRetailerOccurs(domain) ==
  \A i \in 1..Len(DispatchOrder) : ~Includes(domain, DispatchOrder[i])

HostOf(u) == ToLowerCase(ParseURL(u).hostname)

\* C1: once the extraction promise of a call has settled (with a result,
\* with an error, or after the timer has fired), close() has been called on
\* every browser the call launched and on every page it created.
C1_ClosedWhenSettled ==
  \A c \in Calls :
    PipelineSettled(c) =>
      /\ \A b \in BrowserIds :
           browsers[b].owner = c /\ Launched(b) => browsers[b].closeCalls >= 1
      /\ \A p \in PageIds :
           pages[p].owner = c /\ Created(p) => pages[p].closeCalls >= 1

\* C1 witness: the timer fired, the extraction went on to fail on its own,
\* and its page and browser were closed
C1_Witness ==
  \E c \in Calls :
    /\ TimedOut(c)
    /\ calls[c].extractionPromise.state = "rejected"
    /\ calls[c].page # 0
    /\ pages[calls[c].page].closeCalls = 1
    /\ browsers[calls[c].browser].closeCalls = 1

\* C2: when the timer fires the call is settled: rejected with the Timeout
\* error if the extraction promise was still pending, left as it was
\* otherwise; and when the extraction promise settles before the timer has
\* fired, the call settles with the promise's own result or error, which is
\* never the Timeout error.
C2_RaceWithDeadline ==
  [][\A c \in Calls :
       /\ (calls[c].timeoutPromise = "pending" /\ calls'[c].timeoutPromise = "rejected")
            => /\ calls'[c].result.state # "pending"
               /\ calls'[c].result =
                    IF calls[c].extractionPromise.state = "pending"
                    THEN Rejected(TimeoutMsg) ELSE calls[c].result
       /\ (calls[c].extractionPromise.state = "pending"
             /\ calls'[c].extractionPromise.state # "pending"
             /\ calls[c].timeoutPromise = "pending")
            => /\ calls'[c].result = calls'[c].extractionPromise
               /\ calls'[c].result.error # TimeoutMsg
       /\ calls[c].result.state # "pending" => calls'[c].result = calls[c].result
    ]_vars

\* C2 witness: the call was rejected with Timeout and the extraction promise
\* was fulfilled afterwards
C2_Witness ==
  \E c \in Calls :
    TimedOut(c) /\ calls[c].extractionPromise.state = "fulfilled"

C4_Original ==
  \A c \in Calls :
    Made(c) /\ ~ParseURL(calls[c].url).ok =>
      /\ calls[c].result = Rejected(InvalidUrlMsg)
      /\ \A b \in BrowserIds : browsers[b].owner # c

\* C4: a URL that does not parse makes the call fail at once, with the
\* invalid-input error when Puppeteer is loaded and with the
\* Puppeteer-unavailable error otherwise, and no launch is made for the call.
C4_InvalidUrlNoLaunch ==
  \A c \in Calls :
    Made(c) /\ ~ParseURL(calls[c].url).ok =>
      /\ calls[c].result =
           Rejected(IF puppeteer THEN InvalidUrlMsg ELSE PuppeteerMissingMsg)
      /\ \A b \in BrowserIds : browsers[b].owner # c

\* C4 witness: a call with a scheme-less URL of a supported shop was rejected
\* as invalid input
C4_Witness ==
  \E c \in Calls :
    /\ calls[c].url = "www.prom.ua/p2"
    /\ calls[c].result = Rejected(InvalidUrlMsg)
    /\ browsers = <<>>

\* C5 as stated: a hostname the gate rejects makes the call fail with the
\* unsupported-domain error, without launch and without any close.
C5_Original ==
  \A c \in Calls :
    Made(c) /\ ParseURL(calls[c].url).ok /\ NoKeyOccurs(HostOf(calls[c].url)) =>
      /\ calls[c].result = Rejected(UnsupportedMsg(HostOf(calls[c].url)))
      /\ \A b \in BrowserIds : browsers[b].owner # c
      /\ \A p \in PageIds : pages[p].owner # c

\* C5: a hostname the gate rejects makes the call fail at once, with the
\* unsupported-domain error when Puppeteer is loaded and with the
\* Puppeteer-unavailable error otherwise; no launch is made for the call and
\* there is no page or browser for the cleanup to close.
C5_UnsupportedNoLaunch ==
  \A c \in Calls :
    Made(c) /\ ParseURL(calls[c].url).ok /\ NoKeyOccurs(HostOf(calls[c].url)) =>
      /\ calls[c].result =
           Rejected(IF puppeteer THEN UnsupportedMsg(HostOf(calls[c].url))
                    ELSE PuppeteerMissingMsg)
      /\ calls[c].pc = "done"
      /\ \A b \in BrowserIds : browsers[b].owner # c
      /\ \A p \in PageIds : pages[p].owner # c

\* C5 witness: the call for shop.unknownsite.io was rejected by the gate
C5_Witness ==
  \E c \in Calls :
    /\ calls[c].result = Rejected("Domain shop.unknownsite.io is not supported")
    /\ calls[c].extractionPromise.state = "rejected"
    /\ browsers = <<>> /\ pages = <<>>

C7_FallbackFillsGapsOnly ==
  \A c \in Calls :
    "primary" \in calls[c].ran =>
      \A f \in Fields :
        ~Falsy(calls[c].primaryInfo[f])
          => calls[c].productInfo[f] = calls[c].primaryInfo[f]

\* the extraction returned info although its primary title asked for a fallback
ReturnedAfterEscalation(c) ==
  /\ calls[c].extractionPromise.state = "fulfilled"
  /\ NeedsFallback(calls[c].primaryInfo, calls[c].domain)

C9_Original ==
  [][\A c \in Calls :
       (calls[c].result.state = "pending" /\ calls'[c].result.state = "rejected")
         => calls[c].ran = {}
    ]_vars

\* C9: a call in which an extractor has run to completion resolves with the
\* ProductInfo of the pipeline or is rejected with Timeout; it is rejected
\* with any other error only when no extractor has run to completion.
C9_BestEffortUnlessTimeout ==
  \A c \in Calls :
    /\ (calls[c].result.state = "rejected" /\ ~TimedOut(c)) => calls[c].ran = {}
    /\ calls[c].result.state = "fulfilled"
         => /\ "primary" \in calls[c].ran
            /\ calls[c].result.info = calls[c].productInfo
    /\ (calls[c].pc = "done" /\ calls[c].ran # {} /\ calls[c].timeoutPromise = "pending")
         => calls[c].result.state = "fulfilled"

\* C9 witness: every extractor ran and found nothing, and the call resolved
\* with the empty-titled ProductInfo
C9_Witness ==
  \E c \in Calls :
    /\ calls[c].ran = {"primary", "meta", "content"}
    /\ calls[c].result.state = "fulfilled"
    /\ Falsy(calls[c].result.info.title)

\* C10: while the cleanup runs, the completion of the try block stays as it
\* was; when page.close() settles, thrown or not, browser.close() is called;
\* and when the cleanup ends the extraction promise settles with that
\* completion, which is also the outcome of a call not yet settled.
C10_CloseErrorsSwallowed ==
  [][\A c \in Calls :
       calls[c].pc \in {"closingPage", "closingBrowser"} =>
         /\ calls'[c].completion = calls[c].completion
         /\ (calls[c].pc = "closingPage" /\ calls'[c].pc # "closingPage")
              => /\ calls'[c].pc = "closingBrowser"
                 /\ browsers'[calls[c].browser].closeCalls = 1
         /\ calls'[c].pc = "done"
              => /\ calls'[c].extractionPromise = calls[c].completion
                 /\ calls[c].result.state = "pending"
                      => calls'[c].result = calls[c].completion
    ]_vars

\* C10 witness: both closes threw and the call resolved with its ProductInfo
C10_Witness ==
  \E c \in Calls :
    /\ calls[c].closeThrew = {"page", "browser"}
    /\ calls[c].result.state = "fulfilled"
    /\ browsers[calls[c].browser].closeCalls = 1

(***************************************************************************)
(* C11: the price normalizer, on the server and in the client, maps        *)
(* "1 234,56 grn" to 1234.56, "$1,299.99" to 1299.99, "E99,90" to 99.9,    *)
(* "1.234,56" to 1234.56, and "free" and "" to null.                       *)
(***************************************************************************)
ExpectedPrice(s) ==
  CASE s = "1 234,56 grn" -> Num(123456, 2)
    [] s = "$1,299.99"    -> Num(129999, 2)
    [] s = "E99,90"       -> Num(999, 1)
    [] s = "1.234,56"     -> Num(123456, 2)
    [] s = "free"         -> PriceNull
    [] s = ""             -> PriceNull

C11_RepresentativePrices ==
  priceString \in RepresentativePrices =>
    /\ priceValue # PriceUnset => priceValue = ExpectedPrice(priceString)
    /\ clientValue # PriceUnset => clientValue = ExpectedPrice(priceString)

(***************************************************************************)
(* C12: once a reserve request has been answered with success for one      *)
(* guest, a reserve request for the same good that arrives later from a    *)
(* different guest, with no unreserve request made at all, does not        *)
(* replace the guest who holds the good.                                   *)
(***************************************************************************)
C12_ReservationNotReplaced ==
  [][\A q1, q2 \in Requests :
       LET first == requests[q1]
           later == requests[q2]
       IN /\ \A q \in Requests : requests[q].kind # "unreserve"
          /\ first.kind = "reserve" /\ first.status = 200
          /\ later.kind = "reserve" /\ q1 \in later.seen
          /\ later.id = first.id /\ first.id \in GoodIds
          /\ later.guestName # first.guestName
          /\ goods[first.id].reservedBy = first.guest
          => goods'[first.id].reservedBy = first.guest]_vars

(***************************************************************************)
(* C13: concurrent calls share no mutable state.  Each call has a browser  *)
(* and a page of its own, launched by itself; close() is called on a       *)
(* browser or a page only by a step of the call that launched it, on its   *)
(* own local; and every field of a returned result is a value found on the *)
(* page the call itself navigated to its own url.                          *)
(***************************************************************************)
OwnBrowserAndPage ==
  \A c \in Calls :
    LET r == calls[c]
    IN /\ r.browser # 0 => browsers[r.browser].owner = c
       /\ r.page # 0 => /\ pages[r.page].owner = c
                        /\ pages[r.page].browser = r.browser
                        /\ pages[r.page].url \in {"", r.url}
       /\ \A d \in Calls \ {c} :
            /\ r.browser # 0 => calls[d].browser # r.browser
            /\ r.page # 0 => calls[d].page # r.page

ResultFromOwnPage ==
  \A c \in Calls :
    LET r   == calls[c]
        web == Web(r.url)
    IN r.result.state = "fulfilled" =>
         /\ pages[r.page].url = r.url
         /\ \A f \in Fields :
              r.result.info[f] \in {web.site[f], web.meta[f], web.content[f]}

ClosesOnlyOwn ==
  /\ \A b \in BrowserIds :
       browsers'[b].closeCalls > browsers[b].closeCalls =>
         LET c == browsers[b].owner
         IN calls'[c] # calls[c] /\ calls[c].browser = b
  /\ \A p \in PageIds :
       pages'[p].closeCalls > pages[p].closeCalls =>
         LET c == pages[p].owner
         IN calls'[c] # calls[c] /\ calls[c].page = p

C13_NoSharedState ==
  /\ [](OwnBrowserAndPage /\ ResultFromOwnPage)
  /\ [][ClosesOnlyOwn]_vars

\* both calls have returned, from different urls, and the launch of the
\* second call settled while the first was still launching
C13_Witness ==
  /\ \A c \in Calls : calls[c].result.state = "fulfilled"
  /\ calls[1].url # calls[2].url
  /\ Len(browsers) = 2 /\ Len(pages) = 2
  /\ browsers[1].owner # pages[1].owner
  /\ \A b \in BrowserIds : browsers[b].closeCalls = 1

(***************************************************************************)
(* C14: POST /api/extract-product-info answers 400 when url is missing or  *)
(* malformed, 408 when and only when the call failed with the wall-clock   *)
(* Timeout, and 500 for every other failure of the call.                   *)
(***************************************************************************)
C14_StatusByFailure ==
  \A c \in Calls :
    LET h == http[c]
        r == calls[c].result
    IN h.pc = "responded" =>
         /\ (Falsy(h.url) \/ ~ParseURL(h.url).ok) => h.status = 400
         /\ h.status = 408 <=> r = Rejected(TimeoutMsg)
         /\ (r.state = "rejected" /\ r.error # TimeoutMsg) => h.status = 500

(***************************************************************************)
(* C15: every failure response of POST /api/extract-product-info (400,     *)
(* 408 or 500) has the body {success: false, error: <string>} and every    *)
(* success response the body {success: true, data: ProductInfo}.           *)
(***************************************************************************)
C15_BodyShapes ==
  \A c \in Calls :
    LET h == http[c]
    IN h.pc = "responded" =>
         /\ h.status \in {200, 400, 408, 500}
         /\ h.status \in {400, 408, 500} =>
              /\ h.body.keys = {"success", "error"}
              /\ h.body.success = FALSE
              /\ h.body.error # ""
         /\ h.status = 200 =>
              /\ h.body.keys = {"success", "data"}
              /\ h.body.success = TRUE
              /\ DOMAIN h.body.data = Fields

(***************************************************************************)
(* C16: every image address an extractor returns is absolute: '//host/path'*)
(* is returned as 'https://host/path', '/path' as the origin of the page   *)
(* followed by '/path', and no relative address of any form is returned.   *)
(***************************************************************************)
C16_ImageAbsolute ==
  image # Null =>
    /\ StartsWith(imageUrl, "//") => image = "https:" \o imageUrl
    /\ (StartsWith(imageUrl, "/") /\ ~StartsWith(imageUrl, "//")) =>
         image = Origin(pageUrl) \o imageUrl
    /\ ParseURL(image).ok

CalledAt(c, pc) ==
  {i \in 1..Len(calls[c].ops) : calls[c].ops[i] = Event(pc, "call")}

Unsatisfactory(title, domain) == Falsy(title) \/ Includes(title, domain)

C18_FallbackExactlyWhenNeeded ==
  \A c \in Calls :
    LET r         == calls[c]
        afterMeta == IF Unsatisfactory(r.genericInfo.title, r.domain)
                     THEN r.primaryInfo.title ELSE r.genericInfo.title
    IN /\ CalledAt(c, "generic") # {} =>
            "primary" \in r.ran /\ Cardinality(CalledAt(c, "generic")) = 1
       /\ "primary" \in r.ran =>
            (CalledAt(c, "generic") # {}
               <=> Unsatisfactory(r.primaryInfo.title, r.domain))
       /\ CalledAt(c, "content") # {} =>
            /\ "meta" \in r.ran /\ Cardinality(CalledAt(c, "content")) = 1
            /\ \A i \in CalledAt(c, "generic"), j \in CalledAt(c, "content") : i < j
       /\ "meta" \in r.ran =>
            (CalledAt(c, "content") # {} <=> Unsatisfactory(afterMeta, r.domain))
       /\ "meta" \notin r.ran => CalledAt(c, "content") = {}

\* a call whose primary title contained the hostname went through both
\* fallbacks
C18_Witness ==
  \E c \in Calls :
    LET r == calls[c]
    IN /\ r.pc = "done"
       /\ r.ran = {"primary", "meta", "content"}
       /\ ~Falsy(r.primaryInfo.title) /\ Includes(r.primaryInfo.title, r.domain)
       /\ CalledAt(c, "generic") # {} /\ CalledAt(c, "content") # {}

(***************************************************************************)
(* C19: within one call the stages follow one another in the order launch, *)
(* navigate, ready-wait, primary extractor, fallbacks, cleanup: an         *)
(* operation is called only when the one before it has settled, so no two  *)
(* are in flight at once; a stage is entered only after the stage before   *)
(* it has completed; and nothing but the closes follows a close.           *)
(***************************************************************************)
StageOf(op) ==
  CASE op \in {"puppeteer.launch", "browser.newPage",
               "page.setRequestInterception"}                -> 1
    [] op = "page.goto"                                       -> 2
    [] op = "page.waitForSelector"                            -> 3
    [] op = "primary extractor"                               -> 4
    [] op \in {"extractGenericInfo", "extractContentBasedInfo"} -> 5
    [] op \in {"page.close", "browser.close"}                  -> 6

GotoEvents(c, ev) ==
  {i \in 1..Len(calls[c].ops) :
     calls[c].ops[i].op = "page.goto" /\ calls[c].ops[i].ev = ev}

C20_NavigationAtMostTwice ==
  \A c \in Calls :
    LET ops    == calls[c].ops
        called == GotoEvents(c, "call")
        failed == GotoEvents(c, "fail")
        isNav(p) == /\ p.state = "rejected"
                    /\ p.error \in {NavigationFailedMsg, NetErrorMsg(calls[c].url)}
    IN /\ Cardinality(called) <= 2
       /\ \A i \in called :
            IF \A j \in called : i <= j
            THEN ops[i].arg = "domcontentloaded"
            ELSE /\ ops[i].arg # "domcontentloaded"
                 /\ ops[i - 1].op = "page.goto" /\ ops[i - 1].ev = "fail"
                 /\ ops[i - 1].arg = "domcontentloaded"
       /\ (isNav(calls[c].completion) \/ isNav(calls[c].result)) =>
            /\ Cardinality(called) = 2
            /\ Cardinality(failed) = 2

\* both attempts failed and the caller received the navigation failure
C20_Witness ==
  \E c \in Calls :
    /\ calls[c].result.state = "rejected"
    /\ calls[c].result.error = NetErrorMsg(calls[c].url)
    /\ Cardinality(GotoEvents(c, "call")) = 2
    /\ Cardinality(GotoEvents(c, "fail")) = 2

(***************************************************************************)
(* C21: no extractor runs before the page-ready wait has succeeded: every  *)
(* call of the primary, meta or content-based extractor comes after a      *)
(* successful page.waitForSelector, and a call whose ready wait failed     *)
(* completes with that failure without any extractor having run, for       *)
(* site-specific and generic domains alike.                                *)
(***************************************************************************)
ExtractorOps == {"primary extractor", "extractGenericInfo", "extractContentBasedInfo"}

ReadyEvents(c, ev) ==
  {i \in 1..Len(calls[c].ops) :
     calls[c].ops[i].op = "page.waitForSelector" /\ calls[c].ops[i].ev = ev}

C21_NoExtractorBeforeReady ==
  \A c \in Calls :
    LET ops == calls[c].ops
    IN /\ \A i \in 1..Len(ops) :
            (ops[i].op \in ExtractorOps /\ ops[i].ev = "call") =>
              \E j \in ReadyEvents(c, "ok") : j < i
       /\ ReadyEvents(c, "fail") # {} =>
            /\ \A i \in 1..Len(ops) : ops[i].op \notin ExtractorOps
            /\ calls[c].ran = {}
            /\ calls[c].completion \in {Pending, Rejected(ReadyFailedMsg)}

\* a generic-dispatch call ended by its failed ready wait, no extractor called
C21_Witness ==
  \E c \in Calls :
    /\ calls[c].pc = "done"
    /\ calls[c].extractor = IdleCall.extractor
    /\ Dispatch(calls[c].domain) = "generic"
    /\ ReadyEvents(c, "fail") # {}
    /\ calls[c].completion = Rejected(ReadyFailedMsg)
    /\ calls[c].result = Rejected(ReadyFailedMsg)
    /\ calls[c].ran = {}

(***************************************************************************)
(* C22: price normalizer, step 2: for a cleaned text with more than one    *)
(* comma and exactly one dot, if the last comma lies to the right of the   *)
(* dot the comma becomes the decimal separator (dots stripped, comma       *)
(* turned into a dot); otherwise the dot is the decimal separator and the  *)
(* commas are stripped.                                                    *)
(***************************************************************************)
SeveralCommasOneDot(clean) == CountOf(clean, ",") > 1 /\ CountOf(clean, ".") = 1

\* the stated outcome of step 2, spaces removed as step 3 does
StatedSeparators(clean) ==
  LET decided ==
        IF LastIndexOf(clean, ",") > LastIndexOf(clean, ".")
        THEN ReplaceAll(ReplaceAll(clean, ".", ""), ",", ".")
        ELSE ReplaceAll(clean, ",", "")
  IN ReplaceAll(decided, " ", "")

C22_LastSeparatorDecides ==
  LET server == SelectChars(priceString, NumericChars)
      client == Trim(SelectChars(priceString, NumericChars))
  IN /\ (priceValue # PriceUnset /\ SeveralCommasOneDot(server)) =>
          Separators(server) = StatedSeparators(server)
     /\ (clientValue # PriceUnset /\ SeveralCommasOneDot(client)) =>
          Separators(client) = StatedSeparators(client)

(***************************************************************************)
(* C23: price normalizer, step 4: the result is the numeric value of the   *)
(* first contiguous digit/dot run of the cleaned text, and null is         *)
(* returned only when there is no such run or the run parses to NaN.       *)
(***************************************************************************)
ValueOfFirstRun(cleaned) ==
  LET run == MatchNumeric(cleaned)
  IN IF run = Null THEN PriceNull
     ELSE IF ParseFloat(run) = NaN THEN PriceNull
     ELSE ParseFloat(run)

C23_NullOnlyWithoutNumber ==
  LET server == Separators(SelectChars(priceString, NumericChars))
      client == Separators(Trim(SelectChars(priceString, NumericChars)))
  IN /\ priceValue # PriceUnset => priceValue = ValueOfFirstRun(server)
     /\ clientValue # PriceUnset => clientValue = ValueOfFirstRun(client)

(***************************************************************************)
(* C24: selector cascade: the candidates of a field are tried in list      *)
(* order, the value returned is that of the first candidate yielding a     *)
(* non-empty value, no later candidate is consulted after a hit, a         *)
(* candidate that misses or throws is skipped without failing the          *)
(* extractor, and a field for which no candidate yields a value is         *)
(* returned as null.                                                       *)
(***************************************************************************)
Hits == {i \in 1..Len(candidates) : candidates[i] \in Yields /\ ~Falsy(candidates[i])}

FirstHit == CHOOSE i \in Hits : \A j \in Hits : i <= j

\* the candidates whose element was found without text
Empties == {i \in 1..Len(candidates) : candidates[i] \in Yields /\ Falsy(candidates[i])}

SweepApplies ==
  /\ retailerPrice # Unreturned
  /\ Falsy(selectorPrice)
  /\ bodyText # Throws
  /\ ~Falsy(Sweep(bodyText))

C25_EveryRetailerSweeps == SweepApplies => retailerPrice = Sweep(bodyText)

(***************************************************************************)
(* C25, as the code has it: only the Rozetka extractor takes the price     *)
(* from the sweep of the visible text when no price selector yields a      *)
(* value; each of the other ten returns what its selector list left,       *)
(* whatever the page text holds.                                           *)
(***************************************************************************)
C25_OnlyRozetkaSweeps ==
  /\ (SweepApplies /\ retailer = "rozetka") => retailerPrice = Sweep(bodyText)
  /\ (retailerPrice # Unreturned /\ retailer # "rozetka") =>
       retailerPrice = selectorPrice
  /\ (retailerPrice # Unreturned /\ ~Falsy(selectorPrice)) =>
       retailerPrice = selectorPrice

\* no selector hit, and Rozetka's price comes from a currency-suffixed number
C25_Witness ==
  /\ retailer = "rozetka"
  /\ selectorPrice = Null
  /\ bodyText = "only 300 UAH"
  /\ retailerPrice = "300"

(***************************************************************************)
(* C26: every subdomain or case variant of a supported retailer's domain   *)
(* passes the gate and is dispatched to that same retailer's extractor,    *)
(* or to the generic extractor when the retailer has no dedicated one.     *)
(***************************************************************************)
\* the extractor of the retailer that owns the supported domain
ExtractorOf(domain) ==
  IF DomainKey(domain) \in Retailers THEN DomainKey(domain) ELSE "generic"

C26_VariantsSameExtractor ==
  gate # "" => gate = "launch" /\ routed = ExtractorOf(siteDomain)

(***************************************************************************)
(* C27: under any interleaving of concurrent reserve requests, find-or-    *)
(* create by name never produces a duplicate: at most one Guest row        *)
(* exists per guest name.                                                  *)
(***************************************************************************)
C27_OneGuestPerName ==
  \A i, j \in 1..Len(guests) : guests[i].name = guests[j].name => i = j

(***************************************************************************)
(* C29: after any sequence of reserve and unreserve requests every good    *)
(* satisfies: reservedBy is null if and only if reservationDate is null;   *)
(* and an unreserve following a reserve returns the good to exactly its    *)
(* unreserved state.                                                       *)
(***************************************************************************)
C29_ReservedIffDated ==
  \A g \in GoodIds : goods[g].reservedBy = 0 <=> goods[g].reservationDate = 0

(***************************************************************************)
(* C30: if product extraction fails during a URL-based POST /api/goods     *)
(* (invalid URL, unsupported domain, navigation failure or Timeout), no    *)
(* Goods record is created, the goods of the list are unchanged, and the   *)
(* response is an error with status 500.                                   *)
(***************************************************************************)
C30_NoGoodOnFailedExtraction ==
  \A c \in Calls :
    LET r      == post[c]
        result == calls[c].result
    IN (r.kind = "url" /\ result.state = "rejected") =>
         /\ created = r.before
         /\ r.pc \in {"extracting", "responded"}
         /\ r.pc = "responded" =>
              /\ r.status = 500
              /\ r.body.error = result.error
              /\ r.body.id = 0

\* a list that holds one product already; adding a second one by URL timed
\* out and was answered with 500
C30_Witness ==
  \E c \in Calls :
    /\ post[c].kind = "url"
    /\ post[c].pc = "responded"
    /\ calls[c].result = Rejected(TimeoutMsg)
    /\ post[c].status = 500
    /\ Len(post[c].before) = 1
    /\ created = post[c].before

(***************************************************************************)
(* C28: when POST /api/goods succeeds for a newly added item, the          *)
(* server-assigned id is stored on that same local item: a server id is    *)
(* never written onto a different local item, even when an earlier add     *)
(* failed and left a temp_ item behind or when two adds are in flight and  *)
(* their responses arrive in either order.                                 *)
(***************************************************************************)
C28_IdOnSameItem ==
  \A i \in 1..Len(currentWishlist) :
    LET item == currentWishlist[i]
    IN ~item.id.temp => adds[item.by].serverId = item.id.n

====
